---- MODULE Spec2Model ----
(***************************************************************************)
(* A model of the configuration tooling of dogxii/my-configs:             *)
(*   scripts/check-secrets.ts  (secret scanner, masking, config loading)  *)
(*   scripts/format.ts         (format pass, check mode)                  *)
(* Strings are sequences of one-character strings; offsets are 0-based as *)
(* in JavaScript, sequence indices are 1-based as in TLA+.                *)
(***************************************************************************)
EXTENDS Integers, Sequences, FiniteSets, TLC

VARIABLES
    pc,          \* position of the modelled run
    value,       \* maskSecret: the argument
    masked,      \* maskSecret: the returned string
    content,     \* getLineContext / scanFile: the file content
    matchIndex,  \* getLineContext: the match start offset
    lineCtx,     \* getLineContext: the returned {line, column, context}
    scanFileArg, \* scanFile: the file read, [path, readable]
    patterns,    \* scanFile: the patterns argument (config.patterns)
    matches,     \* scanFile: the returned SecretMatch list
    warnings,    \* scanFile: the warnings printed, in order
    configFile,  \* check-secrets: the file .secrets-patterns.json
    fsys,        \* check-secrets: the files below ROOT_DIR, {[path, content]}
    args,        \* check-secrets: the command line, [help, verbose, json]
    reportFails, \* check-secrets: whether writing secrets-report.json throws
    reportSaved, \* check-secrets: whether secrets-report.json was written
    config,      \* main: config
    files,       \* main: files (the paths to scan)
    scanned,     \* main: scanned
    nextFile,    \* main: position of the loop over files (1-based)
    allMatches,  \* main: allMatches
    result,      \* main: result
    exitCode,    \* the exit code of the process, -1 while it runs
    fatal,       \* an error reached main().catch
    isCheckMode, \* format: the --check flag
    readdirFails, \* format: whether readdir throws during the walk
    disk,        \* format: the files below ROOT_DIR, {[path, content, mode]}
    original,    \* format: disk as it was when the run began
    formatFiles, \* format main: files
    formatNext,  \* format main: position of the loop over files (1-based)
    results,     \* format main: results
    formatExit,  \* format: the exit code of the process, -1 while it runs
    formatFatal, \* format: an error reached main().catch
    textKind,    \* formatter: which formatter is applied
    textIn,      \* formatter: the content given to it
    route,       \* formatter: the path formatJSON took
    once,        \* formatter: its output
    twice,       \* formatter: its output on its own output
    runArgs,     \* index.ts: process.argv.slice(2)
    tasks,       \* index.ts main: tasks
    taskNext,    \* index.ts main: position of the loop over tasks (1-based)
    procs,       \* index.ts: the child process of each script
    runDisk,     \* index.ts: the files below the repository root
    runOriginal, \* index.ts: runDisk as it was when the run began
    scanReads,   \* index.ts: the [path, content] the scanner has read
    taskResults, \* index.ts main: results
    runExit,     \* index.ts: the exit code of the process, -1 while it runs
    patternIndex, \* scanFile: position of the loop over patterns (1-based)
    regexLastIndex \* scanFile: regex.lastIndex

maskVars == <<value, masked>>
lineVars == <<content, matchIndex, lineCtx>>
scanVars == <<scanFileArg, patterns, matches, warnings>>
mainVars ==
    <<configFile, fsys, args, reportFails, reportSaved, config, files,
      scanned, nextFile, allMatches, result, exitCode, fatal>>
formatVars ==
    <<isCheckMode, readdirFails, disk, original, formatFiles, formatNext,
      results, formatExit, formatFatal>>
textVars == <<textKind, textIn, route, once, twice>>
runVars ==
    <<runArgs, tasks, taskNext, procs, runDisk, runOriginal, scanReads,
      taskResults, runExit>>
loopVars == <<patternIndex, regexLastIndex>>
vars == <<pc, maskVars, lineVars, scanVars, mainVars, formatVars, textVars, runVars, loopVars>>

\* The value of a variable a run does not use.
Unused == <<>>

MaskIdle == value = Unused /\ masked = Unused
LineIdle == content = Unused /\ matchIndex = Unused /\ lineCtx = Unused
ScanIdle ==
    scanFileArg = Unused /\ patterns = Unused /\ matches = Unused
        /\ warnings = Unused
MainIdle ==
    /\ configFile = Unused /\ fsys = Unused /\ args = Unused
    /\ reportFails = Unused /\ reportSaved = Unused
    /\ config = Unused /\ files = Unused /\ scanned = Unused
    /\ nextFile = Unused /\ allMatches = Unused /\ result = Unused
    /\ exitCode = Unused /\ fatal = Unused
TextIdle ==
    /\ textKind = Unused /\ textIn = Unused /\ route = Unused
    /\ once = Unused /\ twice = Unused
RunIdle ==
    /\ runArgs = Unused /\ tasks = Unused /\ taskNext = Unused
    /\ procs = Unused /\ runDisk = Unused /\ runOriginal = Unused
    /\ scanReads = Unused /\ taskResults = Unused /\ runExit = Unused
LoopIdle == patternIndex = Unused /\ regexLastIndex = Unused
FormatIdle ==
    /\ isCheckMode = Unused /\ readdirFails = Unused /\ disk = Unused
    /\ original = Unused /\ formatFiles = Unused /\ formatNext = Unused
    /\ results = Unused /\ formatExit = Unused /\ formatFatal = Unused

(***************************************************************************)
(* JavaScript string primitives                                           *)
(***************************************************************************)
Min(a, b) == IF a <= b THEN a ELSE b
Max(a, b) == IF a >= b THEN a ELSE b

Range(f) == {f[i] : i \in DOMAIN f}

SetMax(S) == CHOOSE x \in S : \A y \in S : y <= x
SetMin(S) == CHOOSE x \in S : \A y \in S : x <= y

\* String.prototype.slice(start, end): negative arguments count from the
\* end, both are clamped to [0, length], an empty range gives "".
Slice(s, start, end) ==
    LET len  == Len(s)
        from == IF start < 0 THEN Max(len + start, 0) ELSE Min(start, len)
        to   == IF end < 0 THEN Max(len + end, 0) ELSE Min(end, len)
    IN  IF from >= to THEN <<>> ELSE SubSeq(s, from + 1, to)

\* String.prototype.slice(start): end defaults to the length.
SliceFrom(s, start) == Slice(s, start, Len(s))

\* String.prototype.repeat(count) for count >= 0 (a negative count throws
\* RangeError: see RepeatThrows).
Repeat(c, count) == [i \in 1..count |-> c]

RepeatThrows(count) == count < 0

(***************************************************************************)
(* maskSecret                                                              *)
(***************************************************************************)
\* Mutant: the visible tail is taken one character too early.
maskSecretEarlyTail(v) ==
    IF Len(v) <= 8
    THEN [threw |-> RepeatThrows(Len(v)), result |-> Repeat("*", Len(v))]
    ELSE [threw |-> RepeatThrows(Min(Len(v) - 8, 16)),
          result |-> Slice(v, 0, 4) \o Repeat("*", Min(Len(v) - 8, 16))
                       \o Slice(v, -5, -1)]

\* Mutant: the asterisk run is not capped.
maskSecretNoCap(v) ==
    IF Len(v) <= 8
    THEN [threw |-> RepeatThrows(Len(v)), result |-> Repeat("*", Len(v))]
    ELSE [threw |-> RepeatThrows(Len(v) - 8),
          result |-> Slice(v, 0, 4) \o Repeat("*", Len(v) - 8)
                       \o SliceFrom(v, -4)]

maskSecret(v) ==
    IF Len(v) <= 8
    THEN [threw |-> RepeatThrows(Len(v)), result |-> Repeat("*", Len(v))]
    ELSE LET visibleStart == Slice(v, 0, 4)
             visibleEnd   == SliceFrom(v, -4)
             count        == Min(Len(v) - 8, 16)
         IN  [threw  |-> RepeatThrows(count),
              result |-> visibleStart \o Repeat("*", count) \o visibleEnd]

(***************************************************************************)
(* Inputs of the masking run: strings of decimal digits, the i-th         *)
(* character (0-based) being digit (seed + i*step) mod 10.                 *)
(***************************************************************************)
MaxMaskLen == 26
MaxMaskStep == 2

DigitChar(d) == <<"0", "1", "2", "3", "4", "5", "6", "7", "8", "9">>[d + 1]

DigitString(len, seed, step) ==
    [i \in 1..len |-> DigitChar((seed + (i - 1) * step) % 10)]

MaskInputs ==
    {DigitString(len, seed, step) :
        len \in 0..MaxMaskLen, seed \in 0..9, step \in 0..MaxMaskStep}

MaskInit ==
    /\ pc = "mask"
    /\ value \in MaskInputs
    /\ masked = [threw |-> FALSE, result |-> <<>>]
    /\ LineIdle /\ ScanIdle /\ MainIdle /\ FormatIdle /\ TextIdle /\ RunIdle /\ LoopIdle

MaskSecret ==
    /\ pc = "mask"
    /\ masked' = maskSecret(value)
    /\ pc' = "masked"
    /\ UNCHANGED <<value, lineVars, scanVars, mainVars, formatVars,
                   textVars, runVars, loopVars>>

MaskNext == MaskSecret

SpecMask == MaskInit /\ [][MaskNext]_vars

\* C1: for every input v, maskSecret(v) does not throw; when length(v) <= 8
\* the result is length(v) asterisks, otherwise it is the first 4 characters
\* of v, then min(length(v) - 8, 16) asterisks, then the last 4 characters.
C1_MaskReference ==
    pc = "masked" =>
        LET n == Len(value)
            r == masked.result
            k == IF n - 8 <= 16 THEN n - 8 ELSE 16
        IN  /\ ~masked.threw
            /\ n <= 8 => /\ Len(r) = n
                         /\ \A i \in 1..n : r[i] = "*"
            /\ n > 8 => /\ Len(r) = 4 + k + 4
                        /\ \A i \in 1..4 : r[i] = value[i]
                        /\ \A i \in 5..(4 + k) : r[i] = "*"
                        /\ \A i \in 1..4 : r[4 + k + i] = value[n - 4 + i]

\* Witness of C1: a masked input long enough for the 16-asterisk cap.
C1_Witness == pc = "masked" /\ Len(value) > 24 /\ Len(masked.result) = 24

TheExample == DigitString(21, 1, 1)   \* "123456789012345678901"

\* C2 as stated: masking "123456789012345678901" gives "1234", 13 asterisks,
\* "7890".
C2_AsStated ==
    (pc = "masked" /\ value = TheExample) =>
        masked.result = <<"1", "2", "3", "4">> \o Repeat("*", 13)
                          \o <<"7", "8", "9", "0">>

\* C2 amended: masking "123456789012345678901" gives "1234", 13 asterisks,
\* "8901" (the last four characters of the input), 21 characters in total.
C2_MaskExample ==
    (pc = "masked" /\ value = TheExample) =>
        /\ masked.result = <<"1", "2", "3", "4">> \o Repeat("*", 13)
                             \o <<"8", "9", "0", "1">>
        /\ Len(masked.result) = 21

C2_Witness == pc = "masked" /\ value = TheExample /\ Len(masked.result) = 21

(***************************************************************************)
(* getLineContext                                                          *)
(***************************************************************************)
\* String.prototype.split(sep) for a one-character separator: the pieces
\* between consecutive separators, [""] for the empty string.
SeparatorAt(s, at, k) ==
    \* the k-th smallest of the separator positions at; 0 and Len(s) + 1
    \* bound the string
    IF k = 0 THEN 0
    ELSE IF k > Cardinality(at) THEN Len(s) + 1
    ELSE CHOOSE i \in at : Cardinality({j \in at : j < i}) = k - 1

SplitAt(s, at) ==
    [k \in 1..(Cardinality(at) + 1) |->
        SubSeq(s, SeparatorAt(s, at, k - 1) + 1, SeparatorAt(s, at, k) - 1)]

Split(s, sep) == SplitAt(s, {i \in 1..Len(s) : s[i] = sep})

\* The white space String.prototype.trim removes (of the modelled alphabet).
WhiteSpace == {" ", "\t", "\n", "\r"}

\* String.prototype.trimStart / trimEnd / trim
TrimStart(s) ==
    LET solid == {i \in 1..Len(s) : s[i] \notin WhiteSpace}
    IN  IF solid = {} THEN <<>>
        ELSE SubSeq(s, CHOOSE i \in solid : \A j \in solid : i <= j, Len(s))

TrimEnd(s) ==
    LET solid == {i \in 1..Len(s) : s[i] \notin WhiteSpace}
    IN  IF solid = {} THEN <<>>
        ELSE SubSeq(s, 1, CHOOSE i \in solid : \A j \in solid : j <= i)

Trim(s) == TrimEnd(TrimStart(s))

\* Mutant: the column is the 0-based offset within the line.
getLineContextZeroBased(c, index) ==
    LET lines    == Split(Slice(c, 0, index), "\n")
        line     == Len(lines)
        allLines == Split(c, "\n")
    IN  [line |-> line, column |-> Len(lines[Len(lines)]),
         context |-> Trim(IF line <= Len(allLines) THEN allLines[line]
                          ELSE <<>>)]

getLineContext(c, index) ==
    LET lines    == Split(Slice(c, 0, index), "\n")
        line     == Len(lines)
        \* lines[lines.length - 1]?.length || 0: lines is never empty
        column   == Len(lines[Len(lines)]) + 1
        allLines == Split(c, "\n")
        \* allLines[line - 1] || ''
        context  == IF line <= Len(allLines) THEN allLines[line] ELSE <<>>
    IN  [line |-> line, column |-> column, context |-> Trim(context)]

(***************************************************************************)
(* Inputs of the line/column run: every content over LineAlphabet of at    *)
(* most MaxLineLen characters, with every offset into it.                  *)
(***************************************************************************)
MaxLineLen == 5

LineAlphabet == {"a", "b", " ", "\n"}

StringsUpTo(alphabet, n) == UNION {[1..k -> alphabet] : k \in 0..n}

LineInit ==
    /\ pc = "line"
    /\ content \in StringsUpTo(LineAlphabet, MaxLineLen)
    /\ matchIndex \in 0..Len(content)
    /\ lineCtx = [line |-> 0, column |-> 0, context |-> <<>>]
    /\ MaskIdle /\ ScanIdle /\ MainIdle /\ FormatIdle /\ TextIdle /\ RunIdle /\ LoopIdle

GetLineContext ==
    /\ pc = "line"
    /\ lineCtx' = getLineContext(content, matchIndex)
    /\ pc' = "located"
    /\ UNCHANGED <<content, matchIndex, maskVars, scanVars, mainVars,
                   formatVars, textVars, runVars, loopVars>>

LineNext == GetLineContext

SpecLine == LineInit /\ [][LineNext]_vars

\* The 1-based positions of the newlines among the first i characters.
NewlinesBefore(c, i) == {k \in 1..i : c[k] = "\n"}

\* t is text with its leading and trailing white space removed.
IsTrimOf(t, text) ==
    \E a \in 1..(Len(text) + 1) : \E b \in 0..Len(text) :
        /\ t = SubSeq(text, a, b)
        /\ \A k \in 1..(a - 1) : text[k] \in WhiteSpace
        /\ \A k \in (b + 1)..Len(text) : text[k] \in WhiteSpace
        /\ t # <<>> => (t[1] \notin WhiteSpace /\ t[Len(t)] \notin WhiteSpace)

\* C4: the reported line is 1 plus the number of newlines in content[0..i),
\* the column is i minus the index of the last newline before i (i + 1 when
\* there is none), and the context is the trimmed line containing offset i.
C4_LineColumn ==
    pc = "located" =>
        LET i      == matchIndex
            before == NewlinesBefore(content, i)
            after  == {k \in (i + 1)..Len(content) : content[k] = "\n"}
            first  == IF before = {} THEN 1 ELSE SetMax(before) + 1
            last   == IF after = {} THEN Len(content) ELSE SetMin(after) - 1
        IN  /\ lineCtx.line = 1 + Cardinality(before)
            /\ lineCtx.column =
                   IF before = {} THEN i + 1 ELSE i - (SetMax(before) - 1)
            /\ IsTrimOf(lineCtx.context, SubSeq(content, first, last))

\* Witness of C4: a match on the second line, after a padded first column.
C4_Witness ==
    /\ pc = "located"
    /\ matchIndex < Len(content) /\ content[matchIndex + 1] = "b"
    /\ lineCtx.line = 2 /\ lineCtx.column = 2
    /\ lineCtx.context = <<"b">>

(***************************************************************************)
(* Regular expressions                                                     *)
(* A regex source is modelled by its sequence of atoms, for the subset the *)
(* program's patterns use: a character class with a greedy quantifier      *)
(* {min,max} (max = -1: unbounded), the anchors ^ and $, and "(" opening a *)
(* group that is never closed, for which new RegExp throws SyntaxError.    *)
(***************************************************************************)
Class(chars, min, max) ==
    [kind |-> "class", chars |-> chars, min |-> min, max |-> max]
One(chars) == Class(chars, 1, 1)
Opt(chars) == Class(chars, 0, 1)
Star(chars) == Class(chars, 0, -1)
AtLeast(chars, n) == Class(chars, n, -1)
Lit(ch) == One({ch})
Literal(str) == [i \in 1..Len(str) |-> Lit(str[i])]
Bol == [kind |-> "bol", chars |-> {}, min |-> 0, max |-> 0]
Eol == [kind |-> "eol", chars |-> {}, min |-> 0, max |-> 0]
OpenGroup == [kind |-> "open", chars |-> {}, min |-> 0, max |-> 0]

\* new RegExp(source, 'g') does not throw.
Compiles(source) == \A i \in 1..Len(source) : source[i].kind # "open"

\* How many characters of c from offset pos on lie in chars, up to limit
\* (limit = -1: no limit).
RunLength(c, chars, pos, limit) ==
    LET most == IF limit = -1 \/ limit > Len(c) - pos
                THEN Len(c) - pos ELSE limit
        bad  == {j \in 1..most : c[pos + j] \notin chars}
    IN  IF bad = {} THEN most ELSE SetMin(bad) - 1

\* The backtracking matcher: the offset at which atoms k.. of source end
\* when matched from offset pos (each class taking as many characters as
\* lets the rest match), or -1 when they do not match there.
RECURSIVE MatchEnd(_, _, _, _)
MatchEnd(c, source, k, pos) ==
    IF k > Len(source) THEN pos
    ELSE LET a == source[k]
         IN  CASE a.kind = "bol" ->
                    IF pos = 0 THEN MatchEnd(c, source, k + 1, pos) ELSE -1
               [] a.kind = "eol" ->
                    IF pos = Len(c) THEN MatchEnd(c, source, k + 1, pos)
                    ELSE -1
               [] a.kind = "class" ->
                    LET most == RunLength(c, a.chars, pos, a.max)
                    IN  IF most < a.min THEN -1
                        ELSE IF most = a.min
                        THEN MatchEnd(c, source, k + 1, pos + most)
                        ELSE LET ok == {n \in a.min..most :
                                          MatchEnd(c, source, k + 1, pos + n)
                                              # -1}
                             IN  IF ok = {} THEN -1
                                 ELSE MatchEnd(c, source, k + 1,
                                               pos + SetMax(ok))
               [] OTHER -> -1

NoMatch == [found |-> FALSE, index |-> 0, text |-> <<>>]

\* regex.exec(content) with the g flag: the leftmost match starting at or
\* after lastIndex, or null.
Exec(c, source, lastIndex) ==
    LET starts == {i \in lastIndex..Len(c) : MatchEnd(c, source, 1, i) # -1}
    IN  IF starts = {} THEN NoMatch
        ELSE LET i == SetMin(starts)
             IN  [found |-> TRUE, index |-> i,
                  text |-> SubSeq(c, i + 1, MatchEnd(c, source, 1, i))]

\* regex.test(str)
Test(str, source) == Exec(str, source, 0).found

(***************************************************************************)
(* scanFile (pattern sources match at least one character in the runs      *)
(* below)                                                                  *)
(***************************************************************************)
\* The matches the loop `while ((match = regex.exec(content)) !== null)`
\* visits: exec leaves lastIndex at the end of the match it returns.
RECURSIVE ExecLoop(_, _, _)
ExecLoop(c, source, lastIndex) ==
    LET m == Exec(c, source, lastIndex)
    IN  IF ~m.found THEN <<>>
        ELSE <<m>> \o ExecLoop(c, source, m.index + Len(m.text))

\* String.prototype.toLowerCase, on ASCII.
UpperCase ==
    <<"A", "B", "C", "D", "E", "F", "G", "H", "I", "J", "K", "L", "M",
      "N", "O", "P", "Q", "R", "S", "T", "U", "V", "W", "X", "Y", "Z">>
LowerCase ==
    <<"a", "b", "c", "d", "e", "f", "g", "h", "i", "j", "k", "l", "m",
      "n", "o", "p", "q", "r", "s", "t", "u", "v", "w", "x", "y", "z">>

LowerChar(ch) ==
    IF \E i \in 1..26 : UpperCase[i] = ch
    THEN LowerCase[CHOOSE i \in 1..26 : UpperCase[i] = ch]
    ELSE ch

ToLowerCase(str) == [i \in 1..Len(str) |-> LowerChar(str[i])]

\* String.prototype.includes
Includes(hay, needle) ==
    \E k \in 0..(Len(hay) - Len(needle)) :
        \A j \in 1..Len(needle) : hay[k + j] = needle[j]

\* The width of the context window on either side of a match.
ContextWindow == 100

\* Mutant: the window ends ContextWindow characters after the match start.
hasContextShortTail(c, m, context) ==
    LET surroundingText ==
            ToLowerCase(Slice(c, Max(0, m.index - ContextWindow),
                              m.index + ContextWindow))
    IN  \E k \in 1..Len(context) :
            Includes(surroundingText, ToLowerCase(context[k]))

\* patternConfig.context.some(ctx => surroundingText.includes(...))
hasContext(c, m, context) ==
    LET surroundingText ==
            ToLowerCase(Slice(c, Max(0, m.index - ContextWindow),
                              m.index + Len(m.text) + ContextWindow))
    IN  \E k \in 1..Len(context) :
            Includes(surroundingText, ToLowerCase(context[k]))

\* The optional context of a pattern: absent, or a list of keywords.
NoContext == [defined |-> FALSE, items |-> <<>>]
Context(items) == [defined |-> TRUE, items |-> items]

\* The body of the while loop reaches matches.push for match m.
Kept(c, p, m) ==
    IF p.context.defined /\ Len(p.context.items) > 0
    THEN hasContext(c, m, p.context.items)
    ELSE TRUE

SecretMatch(c, relativePath, p, m) ==
    LET lc == getLineContext(c, m.index)
    IN  [file |-> relativePath, line |-> lc.line, column |-> lc.column,
         pattern |-> p.pattern, patternName |-> p.name, match |-> m.text,
         maskedMatch |-> maskSecret(m.text).result, context |-> lc.context]

RECURSIVE PushKept(_, _, _, _)
PushKept(c, relativePath, p, ms) ==
    IF ms = <<>> THEN <<>>
    ELSE (IF Kept(c, p, Head(ms))
          THEN <<SecretMatch(c, relativePath, p, Head(ms))>> ELSE <<>>)
         \o PushKept(c, relativePath, p, Tail(ms))

InvalidRegexWarning(p) == [warning |-> "Invalid regex pattern", of |-> p.name]
UnreadableWarning(path) == [warning |-> "Could not read file", of |-> path]

\* Mutant: one try block around the whole pattern loop, so the first
\* pattern that does not compile ends the loop.
RECURSIVE scanPatternsOuterTry(_, _, _, _)
scanPatternsOuterTry(c, relativePath, ps, acc) ==
    IF ps = <<>> THEN acc
    ELSE LET p == Head(ps)
         IN  IF ~Compiles(p.pattern)
             THEN [matches  |-> acc.matches,
                   warnings |-> Append(acc.warnings, InvalidRegexWarning(p))]
             ELSE scanPatternsOuterTry(c, relativePath, Tail(ps),
                      [matches  |-> acc.matches \o
                           PushKept(c, relativePath, p,
                                    ExecLoop(c, p.pattern, 0)),
                       warnings |-> acc.warnings])

\* for (const patternConfig of patterns) { try { ... } catch { warn } }
RECURSIVE scanPatterns(_, _, _, _)
scanPatterns(c, relativePath, ps, acc) ==
    IF ps = <<>> THEN acc
    ELSE LET p == Head(ps)
         IN  IF ~Compiles(p.pattern)
             THEN scanPatterns(c, relativePath, Tail(ps),
                      [matches  |-> acc.matches,
                       warnings |-> Append(acc.warnings,
                                           InvalidRegexWarning(p))])
             ELSE scanPatterns(c, relativePath, Tail(ps),
                      [matches  |-> acc.matches \o
                           PushKept(c, relativePath, p,
                                    ExecLoop(c, p.pattern, 0)),
                       warnings |-> acc.warnings])

\* scanFile(filePath, patterns): file is [path, readable], c the content a
\* successful read returns, ps the patterns argument as loaded from JSON,
\* [isArray, items].  A failed read, and iterating something that is not
\* iterable, throw inside the outer try: warn and return what was found.
scanFile(file, c, ps) ==
    IF ~file.readable \/ ~ps.isArray
    THEN [matches |-> <<>>, warnings |-> <<UnreadableWarning(file.path)>>]
    ELSE scanPatterns(c, file.path, ps.items,
                      [matches |-> <<>>, warnings |-> <<>>])

(***************************************************************************)
(* Inputs of the scanFile run.  A content is                               *)
(*   lead newlines, [keyword, gap], secret, [gap, keyword]                 *)
(* with the gap filled by "x"; gaps are taken near 0 and near the width of *)
(* the context window.                                                     *)
(***************************************************************************)
MaxLead == 1
MaxNear == 1
MaxPatterns == 2

KeywordText == <<"D", "b">>
SecretText == <<"s", "k", "1">>

GapSet ==
    (0..MaxNear) \cup
    ((ContextWindow - Len(SecretText) - MaxNear)..(ContextWindow + MaxNear))

Layout(lead, side, gap) ==
    Repeat("\n", lead)
      \o (IF side \in {"before", "both"}
          THEN KeywordText \o Repeat("x", gap) ELSE <<>>)
      \o SecretText
      \o (IF side \in {"after", "both"}
          THEN Repeat("x", gap) \o KeywordText ELSE <<>>)

\* Contents whose gaps straddle the edge of the context window.
ScanContents ==
    {Layout(lead, side, gap) :
        lead \in 0..MaxLead, side \in {"none", "before", "after", "both"},
        gap \in GapSet}

\* Contents with short gaps only.
ShortContents ==
    {Layout(lead, side, gap) :
        lead \in 0..MaxLead, side \in {"none", "before", "after", "both"},
        gap \in 0..MaxNear}

PatternPool ==
    { [name |-> "Database Secret", pattern |-> Literal(SecretText),
       context |-> Context(<<<<"d", "B">>>>), description |-> "secret"],
      [name |-> "Generic Secret", pattern |-> Literal(SecretText),
       context |-> NoContext, description |-> "secret"],
      [name |-> "Keyed Word", pattern |-> Literal(KeywordText),
       context |-> Context(<<<<"z", "z">>, <<"S", "K", "1">>>>),
       description |-> "word"],
      [name |-> "Any Word", pattern |-> Literal(KeywordText),
       context |-> Context(<<>>), description |-> "word"],
      [name |-> "Broken", pattern |-> <<OpenGroup>> \o Literal(SecretText),
       context |-> NoContext, description |-> "unterminated group"] }

PatternListsUpTo(n) == UNION {[1..k -> PatternPool] : k \in 0..n}

ScanPath == "zed/setting.json"

\* A run scans a long content with at most one pattern, a short content
\* with up to MaxPatterns patterns, a file that cannot be read, or is given
\* a patterns value that is not an array.
ScanInit ==
    /\ pc = "scan"
    /\ \/ /\ scanFileArg = [path |-> ScanPath, readable |-> TRUE]
          /\ content \in ScanContents
          /\ \E ps \in PatternListsUpTo(1) :
                patterns = [isArray |-> TRUE, items |-> ps]
       \/ /\ scanFileArg = [path |-> ScanPath, readable |-> TRUE]
          /\ content \in ShortContents
          /\ \E ps \in PatternListsUpTo(MaxPatterns) :
                patterns = [isArray |-> TRUE, items |-> ps]
       \/ /\ scanFileArg = [path |-> ScanPath, readable |-> FALSE]
          /\ content = <<>>
          /\ \E ps \in PatternListsUpTo(1) :
                patterns = [isArray |-> TRUE, items |-> ps]
       \/ /\ scanFileArg = [path |-> ScanPath, readable |-> TRUE]
          /\ content \in ShortContents
          /\ patterns = [isArray |-> FALSE, items |-> <<>>]
    /\ matches = <<>>
    /\ warnings = <<>>
    /\ matchIndex = Unused /\ lineCtx = Unused
    /\ MaskIdle /\ MainIdle /\ FormatIdle /\ TextIdle /\ RunIdle /\ LoopIdle

ScanFile ==
    /\ pc = "scan"
    /\ LET r == scanFile(scanFileArg, content, patterns)
       IN  matches' = r.matches /\ warnings' = r.warnings
    /\ pc' = "scanned"
    /\ UNCHANGED <<scanFileArg, patterns, content, matchIndex, lineCtx,
                   maskVars, mainVars, formatVars, textVars, runVars, loopVars>>

ScanNext == ScanFile

SpecScan == ScanInit /\ [][ScanNext]_vars

\* The regex matches of pattern p in content c, as the global search visits
\* them.
RegexMatches(c, p) == Range(ExecLoop(c, p.pattern, 0))

\* Match m of pattern p is among the reported matches ms.
Reported(ms, c, p, m) ==
    \E r \in Range(ms) :
        /\ r.patternName = p.name /\ r.pattern = p.pattern
        /\ r.match = m.text
        /\ r.line = getLineContext(c, m.index).line
        /\ r.column = getLineContext(c, m.index).column

\* Some keyword occurs, compared case-insensitively, entirely inside
\* c[max(0, start - 100), start + len + 100).
KeywordInWindow(c, m, keywords) ==
    LET lo == IF m.index - 100 > 0 THEN m.index - 100 ELSE 0
        hi == IF m.index + Len(m.text) + 100 < Len(c)
              THEN m.index + Len(m.text) + 100 ELSE Len(c)
    IN  \E w \in Range(keywords) : \E at \in lo..(hi - Len(w)) :
            \A j \in 1..Len(w) : LowerChar(c[at + j]) = LowerChar(w[j])

\* C3: for a pattern with a non-empty context list, a regex match is
\* reported if and only if some context keyword occurs (case-insensitively)
\* entirely inside the original content's window of 100 characters on
\* either side of the match; a pattern without context keywords reports
\* every match.
C3_ContextGating ==
    (pc = "scanned" /\ scanFileArg.readable /\ patterns.isArray) =>
        \A p \in Range(patterns.items) :
            Compiles(p.pattern) =>
                \A m \in RegexMatches(content, p) :
                    Reported(matches, content, p, m) <=>
                        \/ ~p.context.defined
                        \/ p.context.items = <<>>
                        \/ KeywordInWindow(content, m, p.context.items)

\* Witness of C3: a match of a context pattern is left out although the
\* keyword occurs in the content, outside the window.
C3_Witness ==
    /\ pc = "scanned" /\ scanFileArg.readable /\ patterns.isArray
    /\ \E p \in Range(patterns.items) :
        /\ Compiles(p.pattern)
        /\ p.context.defined /\ p.context.items # <<>>
        /\ \E m \in RegexMatches(content, p) :
               /\ ~Reported(matches, content, p, m)
               /\ \E w \in Range(p.context.items) :
                      Includes(ToLowerCase(content), ToLowerCase(w))

\* C5: a pattern whose source does not compile is skipped alone: the
\* matches scanFile returns are those it returns for the list without the
\* patterns that do not compile, and each such pattern is warned about.
C5_InvalidPatternSkipped ==
    (pc = "scanned" /\ scanFileArg.readable /\ patterns.isArray) =>
        LET valid == SelectSeq(patterns.items, LAMBDA p : Compiles(p.pattern))
        IN  /\ matches = scanFile(scanFileArg, content,
                                  [isArray |-> TRUE, items |-> valid]).matches
            /\ Len(warnings) = Len(patterns.items) - Len(valid)

\* Witness of C5: a pattern that does not compile precedes one that does
\* and whose matches are reported.
C5_Witness ==
    /\ pc = "scanned" /\ scanFileArg.readable /\ patterns.isArray
    /\ Len(patterns.items) = 2
    /\ ~Compiles(patterns.items[1].pattern)
    /\ Compiles(patterns.items[2].pattern)
    /\ matches # <<>> /\ Len(warnings) = 1

(***************************************************************************)
(* Paths and glob patterns.  A path is a sequence of segments, a segment a *)
(* string; relative(ROOT_DIR, fullPath) joins the segments below the root  *)
(* with "/".                                                               *)
(***************************************************************************)
RECURSIVE Join(_, _)
Join(segments, sep) ==
    IF segments = <<>> THEN <<>>
    ELSE IF Len(segments) = 1 THEN segments[1]
    ELSE segments[1] \o <<sep>> \o Join(Tail(segments), sep)

RelativePath(fullPath) == Join(fullPath, "/")

StartsWith(str, prefix) ==
    /\ Len(prefix) <= Len(str)
    /\ \A i \in 1..Len(prefix) : str[i] = prefix[i]

Digits == {"0", "1", "2", "3", "4", "5", "6", "7", "8", "9"}
Letters == Range(UpperCase) \cup Range(LowerCase)
\* The characters of the modelled texts.
Chars ==
    Letters \cup Digits \cup WhiteSpace \cup
    {"\"", "'", ":", "=", "-", "_", ".", "/", "\\", "{", "}", ",", "*",
     "?", "#"}
\* What "." matches in a regex: anything but a line terminator.
DotClass == Chars \ {"\n", "\r"}

\* path.replace(/\\/g, '/')
NormalizeSeparators(str) ==
    [i \in 1..Len(str) |-> IF str[i] = "\\" THEN "/" ELSE str[i]]

\* The regex source minimatch builds from a glob, for globs that hold no
\* regex metacharacter but ".", "*" and "?": "." is escaped, "**" becomes
\* ".*", a remaining "*" becomes "[^/]*", "?" becomes ".".
RECURSIVE GlobToRegex(_)
GlobToRegex(glob) ==
    IF glob = <<>> THEN <<>>
    ELSE IF Len(glob) >= 2 /\ glob[1] = "*" /\ glob[2] = "*"
    THEN <<Star(DotClass)>> \o GlobToRegex(SubSeq(glob, 3, Len(glob)))
    ELSE IF glob[1] = "*"
    THEN <<Star(DotClass \ {"/"})>> \o GlobToRegex(Tail(glob))
    ELSE IF glob[1] = "?"
    THEN <<One(DotClass)>> \o GlobToRegex(Tail(glob))
    ELSE <<Lit(glob[1])>> \o GlobToRegex(Tail(glob))

\* new RegExp(`^${r}$|/${r}$|^${r}/|/${r}/`).test(normalizedPath)
minimatch(path, pattern) ==
    LET normalizedPath == NormalizeSeparators(path)
        r == GlobToRegex(NormalizeSeparators(pattern))
        slash == Lit("/")
    IN  \/ Test(normalizedPath, <<Bol>> \o r \o <<Eol>>)
        \/ Test(normalizedPath, <<slash>> \o r \o <<Eol>>)
        \/ Test(normalizedPath, <<Bol>> \o r \o <<slash>>)
        \/ Test(normalizedPath, <<slash>> \o r \o <<slash>>)

\* shouldIgnore(filePath, ignorePatterns), ignorePatterns an array
shouldIgnore(fullPath, ignorePatterns) ==
    \E k \in 1..Len(ignorePatterns) :
        minimatch(RelativePath(fullPath), ignorePatterns[k])

\* path.extname of a file name: from its last "." on, "" when there is
\* none or the only one leads the name.
ExtName(name) ==
    LET dots == {i \in 1..Len(name) : name[i] = "."}
    IN  IF dots = {} \/ SetMax(dots) = 1 THEN <<>>
        ELSE SubSeq(name, SetMax(dots), Len(name))

DotEnv == <<".", "e", "n", "v">>

\* hasValidExtension(filePath, extensions), extensions an array
hasValidExtension(fullPath, extensions) ==
    LET fileName == fullPath[Len(fullPath)]
        ext == ToLowerCase(ExtName(fileName))
    IN  \E k \in 1..Len(extensions) :
            IF StartsWith(extensions[k], DotEnv)
            THEN StartsWith(fileName, DotEnv)
            ELSE ext = extensions[k]

(***************************************************************************)
(* loadConfig                                                              *)
(* The JSON value of the configuration file, as far as the program reads   *)
(* it: its type and, of an object, the three properties, each absent,      *)
(* present but no array, or an array.                                      *)
(***************************************************************************)
Absent == [present |-> FALSE, isArray |-> FALSE, items |-> <<>>]
NotArray == [present |-> TRUE, isArray |-> FALSE, items |-> <<>>]
ArrayOf(items) == [present |-> TRUE, isArray |-> TRUE, items |-> items]

JsonObject(ps, ignore, exts) ==
    [type |-> "object", patterns |-> ps, ignorePatterns |-> ignore,
     fileExtensions |-> exts]
JsonNull ==
    [type |-> "null", patterns |-> Absent, ignorePatterns |-> Absent,
     fileExtensions |-> Absent]
JsonNumber ==
    [type |-> "number", patterns |-> Absent, ignorePatterns |-> Absent,
     fileExtensions |-> Absent]

Quotes == {"\"", "'"}
WordChars == Letters \cup Digits \cup {"_", "-"}

\* [Xx] for each letter of word
AnyCase(word) ==
    [i \in 1..Len(word) |->
        One({word[i]} \cup {UpperCase[k] : k \in {j \in 1..26 :
                                                   LowerCase[j] = word[i]}})]

\* ["']?\s*[:=]\s*["']
KeyValueSeparator ==
    <<Opt(Quotes), Star(WhiteSpace), One({":", "="}), Star(WhiteSpace),
      One(Quotes)>>

DefaultPatterns ==
    << [name |-> "Generic API Key",
        pattern |-> AnyCase(<<"a", "p", "i">>) \o <<Opt({"-", "_"})>>
                      \o AnyCase(<<"k", "e", "y">>) \o KeyValueSeparator
                      \o <<AtLeast(WordChars, 16), One(Quotes)>>,
        context |-> NoContext, description |-> "Generic API Key pattern"],
       [name |-> "Generic Secret",
        pattern |-> AnyCase(<<"s", "e", "c", "r", "e", "t">>)
                      \o KeyValueSeparator
                      \o <<AtLeast(WordChars, 8), One(Quotes)>>,
        context |-> NoContext, description |-> "Generic Secret pattern"],
       [name |-> "Generic Password",
        pattern |-> AnyCase(<<"p", "a", "s", "s", "w", "o", "r", "d">>)
                      \o KeyValueSeparator
                      \o <<AtLeast(Chars \ Quotes, 4), One(Quotes)>>,
        context |-> NoContext, description |-> "Generic Password pattern"] >>

GlobNodeModules ==
    <<"*", "*", "/", "n", "o", "d", "e", "_", "m", "o", "d", "u", "l", "e",
      "s", "/", "*", "*">>
GlobGit ==
    <<"*", "*", "/", ".", "g", "i", "t", "/", "*", "*">>
GlobDist ==
    <<"*", "*", "/", "d", "i", "s", "t", "/", "*", "*">>
ExtJson ==
    <<".", "j", "s", "o", "n">>
ExtYaml ==
    <<".", "y", "a", "m", "l">>
ExtYml ==
    <<".", "y", "m", "l">>
ExtToml ==
    <<".", "t", "o", "m", "l">>

DefaultConfig ==
    JsonObject(ArrayOf(DefaultPatterns),
               ArrayOf(<<GlobNodeModules, GlobGit, GlobDist>>),
               ArrayOf(<<ExtJson, ExtYaml, ExtYml, ExtToml, DotEnv>>))

\* The configuration file: missing, not JSON, or holding a JSON value.
MissingFile == [state |-> "missing", json |-> JsonNull]
MalformedFile == [state |-> "malformed", json |-> JsonNull]
JsonFile(json) == [state |-> "json", json |-> json]

\* loadConfig(): file.json() throws for a missing file and for text that is
\* not JSON, and the catch returns the defaults; any JSON value is returned
\* as it is (`content as SecretsConfig`).
loadConfig(file) ==
    IF file.state \in {"missing", "malformed"}
    THEN [config |-> DefaultConfig, errorLogged |-> TRUE]
    ELSE [config |-> file.json, errorLogged |-> FALSE]

(***************************************************************************)
(* scanDirectory                                                           *)
(***************************************************************************)
NodeModules ==
    <<"n", "o", "d", "e", "_", "m", "o", "d", "u", "l", "e", "s">>
Dist ==
    <<"d", "i", "s", "t">>
DotGit ==
    <<".", "g", "i", "t">>
DotConfig ==
    <<".", "c", "o", "n", "f", "i", "g">>
XJson ==
    <<"x", ".", "j", "s", "o", "n">>
YTxt ==
    <<"y", ".", "t", "x", "t">>
CJson ==
    <<"c", ".", "j", "s", "o", "n">>
DirA == <<"a">>
Scripts ==
    <<"s", "c", "r", "i", "p", "t", "s">>
BYaml ==
    <<"b", ".", "y", "a", "m", "l">>
QYmlUpper ==
    <<"Q", ".", "Y", "M", "L">>
PackageLock ==
    <<"p", "a", "c", "k", "a", "g", "e", "-", "l", "o", "c", "k", ".", "j",
      "s", "o", "n">>
TToml ==
    <<"t", ".", "t", "o", "m", "l">>

\* readdir lists the entries of a directory in this order.
NameOrder ==
    <<DotConfig, DotEnv, DotGit, QYmlUpper, DirA, BYaml, CJson, Dist,
      NodeModules, PackageLock, Scripts, TToml, XJson, YTxt>>

IsPrefix(p, q) == Len(p) <= Len(q) /\ SubSeq(q, 1, Len(p)) = p

\* The names readdir(dir) returns, paths being the files of the tree.
Entries(dir, paths) ==
    SelectSeq(NameOrder,
              LAMBDA n : \E f \in paths : IsPrefix(Append(dir, n), f))

IsDirectory(fullPath, paths) ==
    \E f \in paths : IsPrefix(fullPath, f) /\ f # fullPath

\* shouldIgnore(fullPath, config.ignorePatterns) throws TypeError when
\* config is null or config.ignorePatterns is no array.
ShouldIgnoreThrows(cfg) == cfg.type = "null" \/ ~cfg.ignorePatterns.isArray

\* walk(currentDir): a TypeError of the ignore check ends this directory's
\* walk (its outer catch); one of the extension check leaves the file
\* counted but not listed (the inner catch).
RECURSIVE WalkEntries(_, _, _, _, _)
WalkEntries(dir, names, paths, cfg, acc) ==
    IF names = <<>> THEN acc
    ELSE
      LET entry == Head(names)
          fullPath == Append(dir, entry)
          counted == [acc EXCEPT !.scanned = @ + 1]
      IN  IF ShouldIgnoreThrows(cfg) THEN acc
          ELSE IF shouldIgnore(fullPath, cfg.ignorePatterns.items)
          THEN WalkEntries(dir, Tail(names), paths, cfg, acc)
          ELSE IF IsDirectory(fullPath, paths)
          THEN IF ~StartsWith(entry, <<".">>) \/ entry = DotConfig
               THEN WalkEntries(dir, Tail(names), paths, cfg,
                        WalkEntries(fullPath, Entries(fullPath, paths),
                                    paths, cfg, acc))
               ELSE WalkEntries(dir, Tail(names), paths, cfg, acc)
          ELSE IF ~cfg.fileExtensions.isArray
          THEN WalkEntries(dir, Tail(names), paths, cfg, counted)
          ELSE IF hasValidExtension(fullPath, cfg.fileExtensions.items)
          THEN WalkEntries(dir, Tail(names), paths, cfg,
                   [counted EXCEPT !.files = Append(@, fullPath)])
          ELSE WalkEntries(dir, Tail(names), paths, cfg, counted)

\* scanDirectory(ROOT_DIR, config)
scanDirectory(paths, cfg) ==
    WalkEntries(<<>>, Entries(<<>>, paths), paths, cfg,
                [files |-> <<>>, scanned |-> 0])

(***************************************************************************)
(* main of check-secrets.ts                                                *)
(***************************************************************************)
\* The verbose log reads config.patterns.length and calls
\* config.fileExtensions.join: TypeError for a null config, an absent
\* patterns property, or fileExtensions that is no array.
VerboseLogThrows(cfg) ==
    cfg.type = "null" \/ ~cfg.patterns.present \/ ~cfg.fileExtensions.isArray

\* Mutant: hasSecrets tells whether any file was checked.
ScanResultByFiles(fs, n, found) ==
    [totalFiles |-> Len(fs), scannedFiles |-> n, secretsFound |-> found,
     hasSecrets |-> Len(fs) > 0]

ScanResult(fs, n, found) ==
    [totalFiles |-> Len(fs), scannedFiles |-> n, secretsFound |-> found,
     hasSecrets |-> Len(found) > 0]

NoResult ==
    [totalFiles |-> 0, scannedFiles |-> 0, secretsFound |-> <<>>,
     hasSecrets |-> FALSE]

(***************************************************************************)
(* Inputs of a check-secrets run: at most MaxFiles files of FileUniverse,  *)
(* a configuration file of ConfigFiles, and the command line.              *)
(***************************************************************************)
MaxFiles == 2

SecretContent ==
    <<"{", "\"", "p", "a", "s", "s", "w", "o", "r", "d", "\"", ":", " ",
      "\"", "s", "u", "p", "e", "r", "s", "e", "c", "r", "e", "t", "\"",
      "}">>
CleanContent ==
    <<"{", "\"", "a", "\"", ":", " ", "1", "}">>

FileUniverse ==
    { [path |-> <<XJson>>, content |-> SecretContent],
      [path |-> <<XJson>>, content |-> CleanContent],
      [path |-> <<YTxt>>, content |-> SecretContent],
      [path |-> <<NodeModules, XJson>>, content |-> SecretContent],
      [path |-> <<DirA, NodeModules, XJson>>, content |-> SecretContent],
      [path |-> <<DirA, Dist, YTxt>>, content |-> CleanContent],
      [path |-> <<DotGit, CJson>>, content |-> SecretContent],
      [path |-> <<DotConfig, DotEnv>>, content |-> SecretContent],
      [path |-> <<DotConfig, DotEnv>>, content |-> CleanContent] }

FileSystems ==
    {S \in SUBSET FileUniverse :
        /\ Cardinality(S) <= MaxFiles
        /\ \A f, g \in S : f.path = g.path => f = g}

Paths(fs) == {f.path : f \in fs}
ContentOf(fs, path) == (CHOOSE f \in fs : f.path = path).content

CustomPattern ==
    [name |-> "Super", pattern |-> Literal(<<"s", "u", "p", "e", "r">>),
     context |-> NoContext, description |-> "custom"]

ConfigFiles ==
    {MissingFile, MalformedFile, JsonFile(JsonNull), JsonFile(JsonNumber)}
    \cup
    {JsonFile(JsonObject(ps, ignore, exts)) :
        ps \in {Absent, NotArray, ArrayOf(<<>>), ArrayOf(<<CustomPattern>>)},
        ignore \in {Absent, ArrayOf(<<GlobNodeModules, GlobDist>>)},
        exts \in {Absent, NotArray, ArrayOf(<<ExtJson, DotEnv>>)}}

MainInit ==
    /\ pc = "main"
    /\ configFile \in ConfigFiles
    /\ fsys \in FileSystems
    /\ args \in {[help |-> FALSE, verbose |-> FALSE, json |-> FALSE],
                 [help |-> FALSE, verbose |-> TRUE, json |-> FALSE],
                 [help |-> FALSE, verbose |-> FALSE, json |-> TRUE],
                 [help |-> TRUE, verbose |-> FALSE, json |-> FALSE]}
    /\ reportFails \in (IF args.json THEN BOOLEAN ELSE {FALSE})
    /\ reportSaved = FALSE
    /\ config = JsonNull
    /\ files = <<>> /\ scanned = 0 /\ nextFile = 1
    /\ allMatches = <<>>
    /\ result = NoResult
    /\ exitCode = -1
    /\ fatal = FALSE
    /\ MaskIdle /\ LineIdle /\ ScanIdle /\ FormatIdle /\ TextIdle /\ RunIdle /\ LoopIdle

notMain == <<maskVars, lineVars, scanVars, formatVars, textVars, runVars, loopVars>>

\* --help: print the usage and exit 0.
MainHelp ==
    /\ pc = "main" /\ args.help
    /\ pc' = "exited" /\ exitCode' = 0
    /\ UNCHANGED <<configFile, fsys, args, reportFails, reportSaved, config,
                   files, scanned, nextFile, allMatches, result, fatal,
                   notMain>>

\* const config = await loadConfig(), then the verbose log; an exception
\* reaches main().catch, which exits 1.
MainLoadConfig ==
    /\ pc = "main" /\ ~args.help
    /\ config' = loadConfig(configFile).config
    /\ IF args.verbose /\ VerboseLogThrows(config')
       THEN pc' = "exited" /\ exitCode' = 1 /\ fatal' = TRUE
       ELSE pc' = "walk" /\ UNCHANGED <<exitCode, fatal>>
    /\ UNCHANGED <<configFile, fsys, args, reportFails, reportSaved, files,
                   scanned, nextFile, allMatches, result, notMain>>

\* const { files, scanned } = await scanDirectory(ROOT_DIR, config)
MainScanDirectory ==
    /\ pc = "walk"
    /\ LET r == scanDirectory(Paths(fsys), config)
       IN  files' = r.files /\ scanned' = r.scanned
    /\ nextFile' = 1 /\ allMatches' = <<>>
    /\ pc' = "scan"
    /\ UNCHANGED <<configFile, fsys, args, reportFails, reportSaved, config,
                   result, exitCode, fatal, notMain>>

\* One iteration of `for (const file of files)`:
\* allMatches.push(...await scanFile(file, config.patterns))
MainScanFile ==
    /\ pc = "scan" /\ nextFile <= Len(files)
    /\ LET file == files[nextFile]
           found == scanFile([path |-> file, readable |-> TRUE],
                             ContentOf(fsys, file), config.patterns).matches
       IN  allMatches' = allMatches \o found
    /\ nextFile' = nextFile + 1
    /\ UNCHANGED <<pc, configFile, fsys, args, reportFails, reportSaved,
                   config, files, scanned, result, exitCode, fatal, notMain>>

\* After the loop: build the result, print it, save the report (--json; an
\* exception of Bun.write reaches main().catch, which exits 1), exit 1 if
\* secrets were found; otherwise main returns and the process exits 0.
MainReport ==
    /\ pc = "scan" /\ nextFile > Len(files)
    /\ result' = ScanResult(files, scanned, allMatches)
    /\ IF args.json /\ reportFails
       THEN exitCode' = 1 /\ fatal' = TRUE /\ UNCHANGED reportSaved
       ELSE /\ reportSaved' = args.json
            /\ exitCode' = IF result'.hasSecrets THEN 1 ELSE 0
            /\ UNCHANGED fatal
    /\ pc' = "exited"
    /\ UNCHANGED <<configFile, fsys, args, reportFails, config, files,
                   scanned, nextFile, allMatches, notMain>>

MainNext ==
    \/ MainHelp
    \/ MainLoadConfig
    \/ MainScanDirectory
    \/ MainScanFile
    \/ MainReport

SpecMain == MainInit /\ [][MainNext]_vars

\* The configuration was loaded (main is past loadConfig).
ConfigLoaded == pc \in {"walk", "scan", "exited"} /\ ~args.help

\* A JSON value of the {patterns, ignorePatterns, fileExtensions} shape.
HasConfigShape(json) ==
    /\ json.type = "object"
    /\ json.patterns.isArray
    /\ json.ignorePatterns.isArray
    /\ json.fileExtensions.isArray

LoadFailure(file) ==
    file.state \in {"missing", "malformed"} \/ ~HasConfigShape(file.json)

\* C6 as stated: on every kind of load failure (file missing, content not
\* JSON, JSON that lacks the configuration's shape) loadConfig returns the
\* built-in defaults, exactly the three patterns Generic API Key, Generic
\* Secret and Generic Password.
C6_FallbackOnAnyLoadFailure ==
    (ConfigLoaded /\ LoadFailure(configFile)) =>
        /\ config = DefaultConfig
        /\ Len(config.patterns.items) = 3
        /\ config.patterns.items[1].name = "Generic API Key"
        /\ config.patterns.items[2].name = "Generic Secret"
        /\ config.patterns.items[3].name = "Generic Password"

\* The run's configuration does not rest on a file of the wrong shape: the
\* file is missing, is not JSON, or has the configuration's shape.
ConfigAsDesigned == ~LoadFailure(configFile) \/ config = DefaultConfig

\* C7 as stated: whenever main calls scanFile, the pattern list it passes
\* holds at least one pattern (stated here for the runs whose configuration
\* file is missing, not JSON, or well-formed).
C7_PatternsNeverEmpty ==
    (pc = "scan" /\ nextFile <= Len(files) /\ ConfigAsDesigned) =>
        /\ config.patterns.isArray
        /\ config.patterns.items # <<>>

(***************************************************************************)
(* Glob matching as ignore globs are meant: the pattern and the path are   *)
(* matched segment by segment, "**" standing for any number of segments    *)
(* (none included), "*" and "?" for characters within a segment.           *)
(***************************************************************************)
RECURSIVE GlobSegments(_, _)
GlobSegments(ps, segs) ==
    IF ps = <<>> THEN segs = <<>>
    ELSE IF Head(ps) = <<"*", "*">>
    THEN \/ GlobSegments(Tail(ps), segs)
         \/ segs # <<>> /\ GlobSegments(ps, Tail(segs))
    ELSE /\ segs # <<>>
         /\ Test(Head(segs), <<Bol>> \o GlobToRegex(Head(ps)) \o <<Eol>>)
         /\ GlobSegments(Tail(ps), Tail(segs))

GlobMatches(path, glob) == GlobSegments(Split(glob, "/"), path)

\* The files of fs whose root-relative path matches a glob of ignore.
IgnoredFiles(fs, ignore) ==
    {f \in Paths(fs) : \E k \in 1..Len(ignore) : GlobMatches(f, ignore[k])}

\* C8 as stated: after scanDirectory, a file whose root-relative path
\* matches an ignorePatterns glob, at any depth, is neither among the files
\* to check (totalFiles) nor counted in scanned (scannedFiles), whatever
\* its extension (stated here for the runs whose configuration file is
\* missing, not JSON, or well-formed).
C8_IgnoredFilesNotCounted ==
    (pc \in {"scan", "exited"} /\ ~args.help /\ ~fatal
        /\ ConfigAsDesigned) =>
        LET ignored == IgnoredFiles(fsys, config.ignorePatterns.items)
        IN  /\ \A k \in 1..Len(files) : files[k] \notin ignored
            /\ scanned <= Cardinality(Paths(fsys) \ ignored)

\* C9: hasSecrets is true exactly when the accumulated match list is not
\* empty, and a run that ends without a fatal error exits with code 1 if
\* hasSecrets is true and with code 0 otherwise.
C9_ExitCode ==
    (pc = "exited" /\ ~args.help /\ ~fatal) =>
        /\ result.hasSecrets <=> (allMatches # <<>>)
        /\ result.secretsFound = allMatches
        /\ exitCode = 1 <=> result.hasSecrets
        /\ exitCode = 0 <=> ~result.hasSecrets

\* Witness of C9: a run that found a secret and exited 1, and no fatal
\* error.
C9_Witness ==
    /\ pc = "exited" /\ ~args.help /\ ~fatal
    /\ Len(files) = 2 /\ Len(allMatches) = 1
    /\ result.hasSecrets /\ exitCode = 1

(***************************************************************************)
(* format.ts: the line-based formatters                                    *)
(***************************************************************************)
EndsWith(str, suffix) ==
    /\ Len(suffix) <= Len(str)
    /\ \A i \in 1..Len(suffix) :
           str[Len(str) - Len(suffix) + i] = suffix[i]

\* content.split(/\r?\n/): the pieces between newlines, a piece losing the
\* carriage return that immediately precedes its newline.
SplitLines(str) ==
    LET pieces == Split(str, "\n")
    IN  [k \in 1..Len(pieces) |->
            IF k < Len(pieces) /\ EndsWith(pieces[k], <<"\r">>)
            THEN SubSeq(pieces[k], 1, Len(pieces[k]) - 1)
            ELSE pieces[k]]

\* Mutant: every line is kept.
CollapseBlankLinesKeepAll(lines, prevEmpty) == lines

\* The loop that drops a blank line following a blank line.
RECURSIVE CollapseBlankLines(_, _)
CollapseBlankLines(lines, prevEmpty) ==
    IF lines = <<>> THEN <<>>
    ELSE LET isEmpty == Trim(Head(lines)) = <<>>
         IN  IF isEmpty /\ prevEmpty
             THEN CollapseBlankLines(Tail(lines), prevEmpty)
             ELSE <<Head(lines)>> \o CollapseBlankLines(Tail(lines), isEmpty)

\* Mutant: the newline is appended whether or not the output ends with one.
JoinAppendingNewline(lines) == Join(lines, "\n") \o <<"\n">>

\* let output = result.join('\n'); if (!output.endsWith('\n')) output += '\n'
JoinWithFinalNewline(lines) ==
    LET output == Join(lines, "\n")
    IN  IF EndsWith(output, <<"\n">>) THEN output ELSE output \o <<"\n">>

formatYAML(c) ==
    LET lines == SplitLines(c)
        formattedLines == [i \in 1..Len(lines) |-> TrimEnd(lines[i])]
    IN  JoinWithFinalNewline(CollapseBlankLines(formattedLines, FALSE))

\* One line of formatTOML's map: trailing white space removed, and a
\* key/value line re-joined as `key = value` around its first "=".
FormatTOMLLine(line) ==
    LET formatted == TrimEnd(line)
    IN  IF Includes(formatted, <<"=">>)
           /\ ~StartsWith(Trim(formatted), <<"#">>)
        THEN LET parts == Split(formatted, "=")
                 key   == Head(parts)
                 val   == Join(Tail(parts), "=")
             IN  IF key # <<>>
                 THEN TrimEnd(key) \o <<" ", "=", " ">> \o TrimStart(val)
                 ELSE formatted
        ELSE formatted

formatTOML(c) ==
    LET lines == SplitLines(c)
        formattedLines == [i \in 1..Len(lines) |-> FormatTOMLLine(lines[i])]
    IN  JoinWithFinalNewline(CollapseBlankLines(formattedLines, FALSE))

(***************************************************************************)
(* format.ts: formatJSONC                                                  *)
(***************************************************************************)
IndentStr == <<" ", " ">>

\* indentStr.repeat(indentLevel)
Indent(level) == [i \in 1..(2 * level) |-> " "]

\* trimmed.match(/^(.+?)\s*(\/\/.*)$/): the shortest non-empty code prefix
\* after which, white space skipped, "//" begins; "." matches no line
\* terminator.
InlineCommentSplits(trimmed) ==
    {n \in 1..Len(trimmed) :
        LET ws == RunLength(trimmed, WhiteSpace, n, -1)
        IN  /\ n + ws + 2 <= Len(trimmed)
            /\ trimmed[n + ws + 1] = "/"
            /\ trimmed[n + ws + 2] = "/"
            /\ \A i \in (1..n) \cup ((n + ws + 1)..Len(trimmed)) :
                   trimmed[i] \notin {"\n", "\r"}}

\* The text pushed for a line that is neither blank nor a comment line.
FormatCodeLine(trimmed, level) ==
    LET splits == InlineCommentSplits(trimmed)
    IN  IF splits # {}
        THEN LET n == SetMin(splits)
                 code == SubSeq(trimmed, 1, n)
                 ws == RunLength(trimmed, WhiteSpace, n, -1)
                 comment == SubSeq(trimmed, n + ws + 1, Len(trimmed))
             IN  Indent(level) \o Trim(code) \o <<" ">> \o comment
        ELSE Indent(level) \o trimmed

\* /\[.*\]/.test(trimmed) and /\{.*\}/.test(trimmed)
HasPair(trimmed, open, close) ==
    \E i \in 1..Len(trimmed) : \E j \in (i + 1)..Len(trimmed) :
        /\ trimmed[i] = open /\ trimmed[j] = close
        /\ \A k \in (i + 1)..(j - 1) : trimmed[k] \notin {"\n", "\r"}

IsCommentLine(trimmed) ==
    \/ StartsWith(trimmed, <<"/", "/">>)
    \/ StartsWith(trimmed, <<"/", "*">>)
    \/ StartsWith(trimmed, <<"*">>)

\* /^[}\]]/.test(trimmed)
StartsWithClosing(trimmed) == trimmed # <<>> /\ trimmed[1] \in {"}", "]"}

EndsWithOpening(trimmed) ==
    /\ trimmed # <<>> /\ trimmed[Len(trimmed)] \in {"{", "["}
    /\ ~HasPair(trimmed, "[", "]")
    /\ ~HasPair(trimmed, "{", "}")

\* Mutant: a closing line is emitted before the level is lowered.
RECURSIVE FormatJSONCLinesLateClose(_, _)
FormatJSONCLinesLateClose(lines, indentLevel) ==
    IF lines = <<>> THEN <<>>
    ELSE LET trimmed == Trim(Head(lines))
             level == IF StartsWithClosing(trimmed)
                      THEN Max(0, indentLevel - 1) ELSE indentLevel
         IN  IF trimmed = <<>>
             THEN <<<<>>>> \o FormatJSONCLinesLateClose(Tail(lines),
                                                        indentLevel)
             ELSE IF IsCommentLine(trimmed)
             THEN <<Indent(indentLevel) \o trimmed>>
                    \o FormatJSONCLinesLateClose(Tail(lines), indentLevel)
             ELSE <<FormatCodeLine(trimmed, indentLevel)>>
                    \o FormatJSONCLinesLateClose(Tail(lines),
                           IF EndsWithOpening(trimmed) THEN level + 1
                           ELSE level)

\* The loop over the lines, indentLevel being the level before the line.
RECURSIVE FormatJSONCLines(_, _)
FormatJSONCLines(lines, indentLevel) ==
    IF lines = <<>> THEN <<>>
    ELSE LET trimmed == Trim(Head(lines))
             level == IF StartsWithClosing(trimmed)
                      THEN Max(0, indentLevel - 1) ELSE indentLevel
         IN  IF trimmed = <<>>
             THEN <<<<>>>> \o FormatJSONCLines(Tail(lines), indentLevel)
             ELSE IF IsCommentLine(trimmed)
             THEN <<Indent(indentLevel) \o trimmed>>
                    \o FormatJSONCLines(Tail(lines), indentLevel)
             ELSE <<FormatCodeLine(trimmed, level)>>
                    \o FormatJSONCLines(Tail(lines),
                           IF EndsWithOpening(trimmed) THEN level + 1
                           ELSE level)

\* output.replace(/\n+$/, '\n'): the final run of newlines becomes one.
CollapseFinalNewlines(str) ==
    LET solid == {i \in 1..Len(str) : str[i] # "\n"}
        keep  == IF solid = {} THEN 0 ELSE SetMax(solid)
    IN  IF keep = Len(str) THEN str ELSE SubSeq(str, 1, keep) \o <<"\n">>

formatJSONC(c) ==
    LET output == CollapseFinalNewlines(
                      Join(FormatJSONCLines(SplitLines(c), 0), "\n"))
    IN  IF EndsWith(output, <<"\n">>) THEN output ELSE output \o <<"\n">>

(***************************************************************************)
(* JSON.parse and JSON.stringify, as formatPureJSON uses them.  The        *)
(* modelled texts write numbers as integers below 2^53 and strings with    *)
(* the escapes \" \\ \/ \n \r \t.                                          *)
(***************************************************************************)
ParseFail == [ok |-> FALSE, val |-> <<>>, pos |-> 0]
Parsed(v, p) == [ok |-> TRUE, val |-> v, pos |-> p]

JsonString(chars)  == [type |-> "string", chars |-> chars]
JsonNumeral(text)  == [type |-> "number", text |-> text]
JsonLiteral(text)  == [type |-> "literal", text |-> text]
JsonArray(items)   == [type |-> "array", items |-> items]
JsonRecord(members) == [type |-> "object", members |-> members]

SkipWs(c, pos) == pos + RunLength(c, WhiteSpace, pos, -1)

\* Whether word stands in c at offset pos.
At(c, pos, word) ==
    /\ pos + Len(word) <= Len(c)
    /\ \A i \in 1..Len(word) : c[pos + i] = word[i]

Unescape(e) ==
    CASE e = "n" -> "\n"
      [] e = "r" -> "\r"
      [] e = "t" -> "\t"
      [] OTHER   -> e

\* The characters of a string literal from offset pos up to its closing quote.
RECURSIVE ParseChars(_, _, _)
ParseChars(c, pos, acc) ==
    IF pos >= Len(c) THEN ParseFail
    ELSE LET ch == c[pos + 1]
         IN  IF ch = "\"" THEN Parsed(acc, pos + 1)
             ELSE IF ch = "\\"
             THEN IF pos + 2 <= Len(c)
                     /\ c[pos + 2] \in {"\"", "\\", "/", "n", "r", "t"}
                  THEN ParseChars(c, pos + 2,
                                  Append(acc, Unescape(c[pos + 2])))
                  ELSE ParseFail
             ELSE IF ch \in {"\n", "\r", "\t"} THEN ParseFail
             ELSE ParseChars(c, pos + 1, Append(acc, ch))

\* The number whose digits are c[start + 1 .. start + n], negative if
\* a "-" stands before them; -0 is the number 0 once serialized.
NumberOf(c, pos, start, n) ==
    IF n = 0 THEN ParseFail
    ELSE Parsed(JsonNumeral(IF start > pos /\ c[start + 1] # "0"
                            THEN <<"-">> \o SubSeq(c, start + 1, start + n)
                            ELSE SubSeq(c, start + 1, start + n)),
                start + n)

\* The run of digits from offset start that is one number: a leading 0
\* stands alone.
DigitsAt(c, start) ==
    IF At(c, start, <<"0">>) THEN 1 ELSE RunLength(c, Digits, start, -1)

\* -?(0|[1-9][0-9]*)
ParseNumber(c, pos) ==
    IF At(c, pos, <<"-">>)
    THEN NumberOf(c, pos, pos + 1, DigitsAt(c, pos + 1))
    ELSE NumberOf(c, pos, pos, DigitsAt(c, pos))

DigitValue(d) == CHOOSE n \in 0..9 : <<"0", "1", "2", "3", "4", "5", "6", "7", "8", "9">>[n + 1] = d

\* Whether the numeral a denotes a smaller number than the numeral b
\* (neither has a leading zero).
NumeralLess(a, b) ==
    \/ Len(a) < Len(b)
    \/ /\ Len(a) = Len(b)
       /\ \E i \in 1..Len(a) :
              /\ DigitValue(a[i]) < DigitValue(b[i])
              /\ \A j \in 1..(i - 1) : a[j] = b[j]

\* A property name that is a canonical array index (below 2^32 - 1), which
\* an object lists before its other properties, in ascending order.
IsArrayIndex(key) ==
    /\ key # <<>>
    /\ \A i \in 1..Len(key) : key[i] \in Digits
    /\ (key[1] = "0" => Len(key) = 1)
    /\ NumeralLess(key, <<"4", "2", "9", "4", "9", "6", "7", "2", "9", "5">>)

\* The own properties of the object built from the members in source order:
\* a repeated name keeps its first place and its last value.
OwnProperties(members) ==
    LET first  == {i \in 1..Len(members) :
                      \A j \in 1..(i - 1) : members[j].key # members[i].key}
        ints   == {i \in first : IsArrayIndex(members[i].key)}
        last(i) == SetMax({j \in 1..Len(members) :
                              members[j].key = members[i].key})
        rank(i) ==
            IF i \in ints
            THEN 1 + Cardinality({j \in ints :
                       NumeralLess(members[j].key, members[i].key)})
            ELSE 1 + Cardinality(ints)
                   + Cardinality({j \in first \ ints : j < i})
    IN  [r \in 1..Cardinality(first) |->
            LET i == CHOOSE i \in first : rank(i) = r
            IN  [key |-> members[i].key, val |-> members[last(i)].val]]

\* The parser is a machine with a stack of the arrays and objects that are
\* open.  Its mode tells what it expects at offset pos: a "value", the "key"
\* of an object member, or, "after" a value (held in val), what follows it.
Frame(kind, items, key) == [kind |-> kind, items |-> items, key |-> key]
ParserAt(mode, pos, stack, val) ==
    [mode |-> mode, pos |-> pos, stack |-> stack, val |-> val]
ParserFailed == ParserAt("failed", 0, <<>>, <<>>)
Pop(stack) == SubSeq(stack, 1, Len(stack) - 1)

\* The parser after a string or a number was read, or was not.
ValueRead(v, stack) ==
    IF v.ok THEN ParserAt("after", v.pos, stack, v.val) ELSE ParserFailed

StringRead(str) ==
    IF str.ok THEN Parsed(JsonString(str.val), str.pos) ELSE ParseFail

\* An opening "{" or "[" at offset p: the empty object or array when its
\* closing character follows, otherwise a new frame.
Opened(c, p, inner, stack, kind, close, empty) ==
    IF At(c, inner, close)
    THEN ParserAt("after", inner + 1, stack, empty)
    ELSE ParserAt(IF kind = "array" THEN "value" ELSE "key", p + 1,
                  Append(stack, Frame(kind, <<>>, <<>>)), <<>>)

ValueAt(c, p, stack) ==
    IF At(c, p, <<"{">>)
    THEN Opened(c, p, SkipWs(c, p + 1), stack, "object", <<"}">>,
                JsonRecord(<<>>))
    ELSE IF At(c, p, <<"[">>)
    THEN Opened(c, p, SkipWs(c, p + 1), stack, "array", <<"]">>,
                JsonArray(<<>>))
    ELSE IF At(c, p, <<"\"">>)
    THEN ValueRead(StringRead(ParseChars(c, p + 1, <<>>)), stack)
    ELSE IF At(c, p, <<"t", "r", "u", "e">>)
    THEN ParserAt("after", p + 4, stack, JsonLiteral(<<"t", "r", "u", "e">>))
    ELSE IF At(c, p, <<"f", "a", "l", "s", "e">>)
    THEN ParserAt("after", p + 5, stack,
                  JsonLiteral(<<"f", "a", "l", "s", "e">>))
    ELSE IF At(c, p, <<"n", "u", "l", "l">>)
    THEN ParserAt("after", p + 4, stack, JsonLiteral(<<"n", "u", "l", "l">>))
    ELSE ValueRead(ParseNumber(c, p), stack)

ExpectValue(c, st) == ValueAt(c, SkipWs(c, st.pos), st.stack)

\* The parser after a member's key k was read, or was not.
KeyRead(c, k, colon, stack) ==
    IF k.ok /\ At(c, colon, <<":">>)
    THEN ParserAt("value", colon + 1,
                  Append(Pop(stack),
                         [stack[Len(stack)] EXCEPT !.key = k.val]),
                  <<>>)
    ELSE ParserFailed

KeyAt(c, k, stack) == KeyRead(c, k, SkipWs(c, k.pos), stack)

ExpectKey(c, st) ==
    IF At(c, SkipWs(c, st.pos), <<"\"">>)
    THEN KeyAt(c, ParseChars(c, SkipWs(c, st.pos) + 1, <<>>), st.stack)
    ELSE ParserFailed

\* What follows a value of the open array or object top, items being its
\* elements or members with that value included.
Following(c, q, rest, top, items) ==
    IF At(c, q, <<",">>)
    THEN ParserAt(IF top.kind = "array" THEN "value" ELSE "key", q + 1,
                  Append(rest, [top EXCEPT !.items = items]), <<>>)
    ELSE IF top.kind = "array" /\ At(c, q, <<"]">>)
    THEN ParserAt("after", q + 1, rest, JsonArray(items))
    ELSE IF top.kind = "object" /\ At(c, q, <<"}">>)
    THEN ParserAt("after", q + 1, rest, JsonRecord(OwnProperties(items)))
    ELSE ParserFailed

Included(top, val) ==
    Append(top.items,
           IF top.kind = "array" THEN val
           ELSE [key |-> top.key, val |-> val])

AfterValue(c, st) ==
    IF st.stack = <<>>
    THEN IF SkipWs(c, st.pos) = Len(c)
         THEN ParserAt("done", Len(c), <<>>, st.val)
         ELSE ParserFailed
    ELSE Following(c, SkipWs(c, st.pos), Pop(st.stack),
                   st.stack[Len(st.stack)],
                   Included(st.stack[Len(st.stack)], st.val))

ParserStep(c, st) ==
    IF st.mode = "value" THEN ExpectValue(c, st)
    ELSE IF st.mode = "key" THEN ExpectKey(c, st)
    ELSE AfterValue(c, st)

RECURSIVE RunParser(_, _)
RunParser(c, st) ==
    IF st.mode \in {"done", "failed"} THEN st
    ELSE RunParser(c, ParserStep(c, st))

ParseOutcome(st) ==
    IF st.mode = "done" THEN [threw |-> FALSE, value |-> st.val]
    ELSE [threw |-> TRUE, value |-> <<>>]

\* JSON.parse(content): the value, or a SyntaxError.
JSONParse(c) == ParseOutcome(RunParser(c, ParserAt("value", 0, <<>>, <<>>)))

EscapeChar(ch) ==
    CASE ch = "\"" -> <<"\\", "\"">>
      [] ch = "\\" -> <<"\\", "\\">>
      [] ch = "\n" -> <<"\\", "n">>
      [] ch = "\r" -> <<"\\", "r">>
      [] ch = "\t" -> <<"\\", "t">>
      [] OTHER     -> <<ch>>

RECURSIVE Concat(_)
Concat(pieces) ==
    IF pieces = <<>> THEN <<>> ELSE Head(pieces) \o Concat(Tail(pieces))

Quote(chars) ==
    <<"\"">> \o Concat([i \in 1..Len(chars) |-> EscapeChar(chars[i])])
             \o <<"\"">>

\* segments.join(",\n")
RECURSIVE JoinItems(_)
JoinItems(segments) ==
    IF Len(segments) = 1 THEN segments[1]
    ELSE segments[1] \o <<",", "\n">> \o JoinItems(Tail(segments))

\* JSON.stringify(value, null, 2), the value standing at nesting depth level.
RECURSIVE Stringify(_, _)
Stringify(v, level) ==
    CASE v.type = "string" -> Quote(v.chars)
      [] v.type = "number" -> v.text
      [] v.type = "literal" -> v.text
      [] v.type = "array" ->
            IF v.items = <<>> THEN <<"[", "]">>
            ELSE <<"[", "\n">>
                 \o JoinItems([i \in 1..Len(v.items) |->
                        Indent(level + 1)
                          \o Stringify(v.items[i], level + 1)])
                 \o <<"\n">> \o Indent(level) \o <<"]">>
      [] v.type = "object" ->
            IF v.members = <<>> THEN <<"{", "}">>
            ELSE <<"{", "\n">>
                 \o JoinItems([i \in 1..Len(v.members) |->
                        Indent(level + 1) \o Quote(v.members[i].key)
                          \o <<":", " ">>
                          \o Stringify(v.members[i].val, level + 1)])
                 \o <<"\n">> \o Indent(level) \o <<"}">>

JSONStringify(v) == Stringify(v, 0)

(***************************************************************************)
(* format.ts: formatPureJSON, formatJSON, formatContent                    *)
(***************************************************************************)
\* return JSON.stringify(parsed, null, 2) + '\n'
Serialized(parsed) ==
    IF parsed.threw THEN [threw |-> TRUE, result |-> <<>>]
    ELSE [threw |-> FALSE,
          result |-> JSONStringify(parsed.value) \o <<"\n">>]

formatPureJSON(c) == Serialized(JSONParse(c))

\* Mutant: only the first of the two comment tests is made.
hasCommentsFirstTestOnly(c) ==
    \/ At(c, SkipWs(c, 0), <<"/", "/">>)
    \/ \E k \in 0..Len(c) : At(c, k, <<"/", "*">>)

\* /^\s*\/\/|\/\*/.test(content) || /[^:"]\/\//.test(content)
hasComments(c) ==
    \/ At(c, SkipWs(c, 0), <<"/", "/">>)
    \/ \E k \in 0..Len(c) : At(c, k, <<"/", "*">>)
    \/ \E k \in 1..Len(c) :
           c[k] \notin {":", "\""} /\ At(c, k, <<"/", "/">>)

\* Mutant: no catch around formatPureJSON, a failed parse yields no result.
formatJSONNoFallback(c) ==
    IF hasComments(c) THEN formatJSONC(c) ELSE formatPureJSON(c).result

formatJSON(c) ==
    IF hasComments(c) \/ formatPureJSON(c).threw THEN formatJSONC(c)
    ELSE formatPureJSON(c).result

formatContent(c, ext) ==
    LET tag == ToLowerCase(ext)
    IN  IF tag = <<".", "j", "s", "o", "n">> THEN formatJSON(c)
        ELSE IF tag \in {<<".", "y", "a", "m", "l">>, <<".", "y", "m", "l">>}
        THEN formatYAML(c)
        ELSE IF tag = <<".", "t", "o", "m", "l">> THEN formatTOML(c)
        ELSE c

(***************************************************************************)
(* format.ts: shouldIgnore, getAllFiles, formatFile                        *)
(***************************************************************************)
SUPPORTED_EXTENSIONS ==
    {<<".", "j", "s", "o", "n">>, <<".", "y", "a", "m", "l">>,
     <<".", "y", "m", "l">>, <<".", "t", "o", "m", "l">>}
IGNORED_DIRS == {NodeModules, DotGit, Dist, Scripts}
IGNORED_FILES ==
    {PackageLock, <<"b", "u", "n", ".", "l", "o", "c", "k", "b">>,
     <<"b", "u", "n", ".", "l", "o", "c", "k">>}

\* shouldIgnore(relativePath) of format.ts
formatShouldIgnore(fullPath) ==
    \/ \E k \in 1..Len(fullPath) : fullPath[k] \in IGNORED_DIRS
    \/ \E ignored \in IGNORED_FILES : EndsWith(RelativePath(fullPath), ignored)

\* walk(currentDir) of getAllFiles: the files pushed, after those of acc.
RECURSIVE FormatWalk(_, _, _, _)
FormatWalk(dir, names, paths, acc) ==
    IF names = <<>> THEN acc
    ELSE
      LET entry == Head(names)
          fullPath == Append(dir, entry)
      IN  IF formatShouldIgnore(fullPath)
          THEN FormatWalk(dir, Tail(names), paths, acc)
          ELSE IF IsDirectory(fullPath, paths)
          THEN FormatWalk(dir, Tail(names), paths,
                   FormatWalk(fullPath, Entries(fullPath, paths), paths, acc))
          ELSE IF ToLowerCase(ExtName(entry)) \in SUPPORTED_EXTENSIONS
          THEN FormatWalk(dir, Tail(names), paths, Append(acc, fullPath))
          ELSE FormatWalk(dir, Tail(names), paths, acc)

\* getAllFiles(ROOT_DIR)
getAllFiles(paths) == FormatWalk(<<>>, Entries(<<>>, paths), paths, <<>>)

\* A file of the disk: its content, and what the process may do with it.
Readable(f) == f.mode \in {"rw", "r"}
Writable(f) == f.mode = "rw"
FileAt(d, path) == CHOOSE f \in d : f.path = path

NoMessage == "undefined"
NeedsFormatting == "File needs formatting"
PermissionDenied == "EACCES: permission denied"
FormatResult(file, status, message) ==
    [file |-> RelativePath(file), status |-> status, message |-> message]

\* Mutant: the check-mode test is skipped, a differing file is written.
FormatOutcomeIgnoringCheck(f, formatted, d, checkMode) ==
    IF f.content = formatted
    THEN [result |-> FormatResult(f.path, "unchanged", NoMessage),
          disk |-> d]
    ELSE IF ~Writable(f)
    THEN [result |-> FormatResult(f.path, "error", PermissionDenied),
          disk |-> d]
    ELSE [result |-> FormatResult(f.path, "formatted", NoMessage),
          disk |-> (d \ {f}) \cup {[f EXCEPT !.content = formatted]}]

\* formatFile once the file f was read and formatted: unchanged, in need of
\* formatting (check mode), or written back; writeFile throws on a file
\* the process may not write.
FormatOutcome(f, formatted, d, checkMode) ==
    IF f.content = formatted
    THEN [result |-> FormatResult(f.path, "unchanged", NoMessage),
          disk |-> d]
    ELSE IF checkMode
    THEN [result |-> FormatResult(f.path, "error", NeedsFormatting),
          disk |-> d]
    ELSE IF ~Writable(f)
    THEN [result |-> FormatResult(f.path, "error", PermissionDenied),
          disk |-> d]
    ELSE [result |-> FormatResult(f.path, "formatted", NoMessage),
          disk |-> (d \ {f}) \cup {[f EXCEPT !.content = formatted]}]

\* readFile throws on a file the process may not read.
FormatRead(f, d, checkMode) ==
    IF ~Readable(f)
    THEN [result |-> FormatResult(f.path, "error", PermissionDenied),
          disk |-> d]
    ELSE FormatOutcome(f, formatContent(f.content,
                                        ExtName(f.path[Len(f.path)])),
                       d, checkMode)

\* formatFile(filePath) on the disk d: its FormatResult and the disk it
\* leaves.
formatFile(filePath, d, checkMode) ==
    FormatRead(FileAt(d, filePath), d, checkMode)

(***************************************************************************)
(* Inputs of a format run: at most MaxFormatFiles files of FormatUniverse, *)
(* the --check flag, and whether readdir fails.                            *)
(***************************************************************************)
MaxFormatFiles == 2

JsonTidy ==
    <<"{", "\n", " ", " ", "\"", "a", "\"", ":", " ", "1", "\n", "}", "\n">>
JsonRaw ==
    <<"{", "\"", "a", "\"", ":", "1", "}">>
JsoncRaw ==
    <<" ", "/", "/", " ", "c", "\n", "{", "\n", "\"", "a", "\"", ":", " ",
      "1", " ", "/", "/", " ", "o", "n", "e", "\n", "}">>
YamlTidy ==
    <<"a", ":", " ", "1", "\n">>
YamlRaw ==
    <<"a", ":", " ", "1", " ", " ", "\n", "\n", "\n", "\n", "b", ":", " ",
      "2">>
TomlTidy ==
    <<"a", " ", "=", " ", "1", "\n">>
TomlRaw ==
    <<"a", "=", "1", "\n">>

DiskFile(path, c, mode) == [path |-> path, content |-> c, mode |-> mode]

FormatUniverse ==
    { DiskFile(<<XJson>>, JsonTidy, "rw"),
      DiskFile(<<XJson>>, JsonRaw, "rw"),
      DiskFile(<<XJson>>, JsonRaw, "r"),
      DiskFile(<<XJson>>, JsonRaw, "none"),
      DiskFile(<<XJson>>, JsoncRaw, "rw"),
      DiskFile(<<BYaml>>, YamlTidy, "rw"),
      DiskFile(<<BYaml>>, YamlRaw, "rw"),
      DiskFile(<<QYmlUpper>>, YamlRaw, "rw"),
      DiskFile(<<TToml>>, TomlTidy, "rw"),
      DiskFile(<<TToml>>, TomlRaw, "rw"),
      DiskFile(<<YTxt>>, YamlRaw, "rw"),
      DiskFile(<<Scripts, XJson>>, JsonRaw, "rw"),
      DiskFile(<<DirA, BYaml>>, YamlRaw, "rw"),
      DiskFile(<<PackageLock>>, JsonRaw, "rw") }

FormatDisks ==
    {S \in SUBSET FormatUniverse :
        /\ Cardinality(S) <= MaxFormatFiles
        /\ \A f, g \in S : f.path = g.path => f = g}

FormatInit ==
    /\ pc = "format"
    /\ isCheckMode \in BOOLEAN
    /\ readdirFails \in BOOLEAN
    /\ disk \in FormatDisks
    /\ original = disk
    /\ formatFiles = <<>> /\ formatNext = 1
    /\ results = <<>>
    /\ formatExit = -1
    /\ formatFatal = FALSE
    /\ MaskIdle /\ LineIdle /\ ScanIdle /\ MainIdle /\ TextIdle /\ RunIdle /\ LoopIdle

notFormat == <<maskVars, lineVars, scanVars, mainVars, textVars, runVars, loopVars>>

\* const files = await getAllFiles(ROOT_DIR); an exception of readdir
\* reaches main().catch, which exits 1; with no file main returns.
FormatGetAllFiles ==
    /\ pc = "format"
    /\ IF readdirFails
       THEN /\ pc' = "exited" /\ formatExit' = 1 /\ formatFatal' = TRUE
            /\ UNCHANGED formatFiles
       ELSE /\ formatFiles' = getAllFiles(Paths(disk))
            /\ IF formatFiles' = <<>>
               THEN pc' = "exited" /\ formatExit' = 0
               ELSE pc' = "formatting" /\ UNCHANGED formatExit
            /\ UNCHANGED formatFatal
    /\ UNCHANGED <<isCheckMode, readdirFails, disk, original, formatNext,
                   results, notFormat>>

\* One iteration of `for (const file of files)`:
\* results.push(await formatFile(file))
FormatFile ==
    /\ pc = "formatting" /\ formatNext <= Len(formatFiles)
    /\ LET r == formatFile(formatFiles[formatNext], disk, isCheckMode)
       IN  results' = Append(results, r.result) /\ disk' = r.disk
    /\ formatNext' = formatNext + 1
    /\ UNCHANGED <<pc, isCheckMode, readdirFails, original, formatFiles,
                   formatExit, formatFatal, notFormat>>

WithStatus(rs, status) == SelectSeq(rs, LAMBDA r : r.status = status)

\* After the loop: every result is printed, then the summary; exit 1 in
\* check mode if a file was formatted or is in error, otherwise main
\* returns and the process exits 0.
FormatReport ==
    /\ pc = "formatting" /\ formatNext > Len(formatFiles)
    /\ LET formatted == WithStatus(results, "formatted")
           errors == WithStatus(results, "error")
       IN  formatExit' = IF isCheckMode
                            /\ (Len(formatted) > 0 \/ Len(errors) > 0)
                         THEN 1 ELSE 0
    /\ pc' = "exited"
    /\ UNCHANGED <<isCheckMode, readdirFails, disk, original, formatFiles,
                   formatNext, results, formatFatal, notFormat>>

FormatNext ==
    \/ FormatGetAllFiles
    \/ FormatFile
    \/ FormatReport

SpecFormat == FormatInit /\ [][FormatNext]_vars

\* The file's content differs from its formatted form.
Differs(f) ==
    /\ Readable(f)
    /\ formatContent(f.content, ExtName(f.path[Len(f.path)])) # f.content

\* C10: in a check-mode run of the format pass no file is written (the
\* disk stays as it was when the run began), every processed file whose
\* content differs from its formatted form is reported (in error, "File
\* needs formatting"), every listed file is processed before a normal
\* exit, and the exit code is 1 when such a file exists.
C10_CheckModeWritesNothing ==
    (pc \in {"format", "formatting", "exited"} /\ isCheckMode) =>
        /\ disk = original
        /\ \A k \in 1..Len(results) :
               Differs(FileAt(original, formatFiles[k])) =>
                   results[k] = FormatResult(formatFiles[k], "error",
                                             NeedsFormatting)
        /\ pc = "exited" =>
               /\ ~formatFatal => Len(results) = Len(formatFiles)
               /\ (\E k \in 1..Len(formatFiles) :
                       Differs(FileAt(original, formatFiles[k])))
                      => formatExit = 1

C10_Witness ==
    /\ pc = "exited" /\ isCheckMode /\ ~formatFatal
    /\ Len(results) = 2
    /\ Differs(FileAt(original, formatFiles[1]))
    /\ Writable(FileAt(original, formatFiles[1]))
    /\ results[1].message = NeedsFormatting
    /\ results[2].status = "unchanged"
    /\ formatExit = 1
    /\ disk = original

(***************************************************************************)
(* The formatters applied to a text, and again to their own output.        *)
(***************************************************************************)
\* Which path formatJSON takes: the JSONC reformatter because comments were
\* detected, the canonical formatter, or the JSONC reformatter as the
\* fallback of a failed parse.
formatJSONRoute(c) ==
    IF hasComments(c) THEN "jsonc"
    ELSE IF formatPureJSON(c).threw THEN "fallback"
    ELSE "canonical"

DotJson == <<".", "j", "s", "o", "n">>
DotYaml == <<".", "y", "a", "m", "l">>
DotToml == <<".", "t", "o", "m", "l">>

\* The formatter a run applies: formatContent under an extension, or
\* formatJSONC itself.
Formatter(kind, c) ==
    IF kind = "jsonc" THEN formatJSONC(c)
    ELSE formatContent(c, IF kind = "json" THEN DotJson
                          ELSE IF kind = "yaml" THEN DotYaml
                          ELSE DotToml)

\* The bodies of JSON string literals: up to MaxPieces pieces, a piece being
\* a letter, a slash, an escaped slash or a colon.
MaxPieces == 3
StringPieces == {<<"a">>, <<"/">>, <<"\\", "/">>, <<":">>}
StringBodies ==
    {Concat(ps) : ps \in UNION {[1..k -> StringPieces] : k \in 0..MaxPieces}}

Quoted(body) == <<"\"">> \o body \o <<"\"">>

\* Valid JSON documents around a string literal: the string alone, in an
\* array, and as a member value, compact and spread over lines.
JsonDocs ==
    UNION {{ Quoted(b),
             <<"[">> \o Quoted(b) \o <<"]">>,
             <<"{", "\"", "k", "\"", ":">> \o Quoted(b) \o <<"}">>,
             <<"{", "\n", " ", " ", "\"", "k", "\"", ":", " ">>
                 \o Quoted(b) \o <<"\n", "}", "\n">> } : b \in StringBodies}

\* Arbitrary short texts, valid JSON or not.
MaxTextLen == 3
TextAlphabet == {"/", "*", "\"", ":", " ", "\n", "1", "[", "]"}
JsonTexts == StringsUpTo(TextAlphabet, MaxTextLen)

\* JSONC texts: up to MaxJsoncLines lines of JsoncLines.
MaxJsoncLines == 3
JsoncLines ==
    { <<"{">>,
      <<" ", " ", "}">>,
      <<"[">>,
      <<"]">>,
      <<"\"", "a", "\"", ":", " ", "1", ",">>,
      <<" ", " ", " ", " ", "/", "/", " ", "c">>,
      <<"\"", "k", "\"", ":", " ", "{">>,
      <<"[", "{", "}", ",", " ", "[">>,
      <<"}", ",", " ", "{">>,
      <<>>,
      <<"*", " ", "x">>,
      <<"\"", "a", "\"", ":", " ", "1", " ", " ", "/", "/", " ", "c">>,
      <<"\"", "u", "\"", ":", " ", "\"", "h", "t", "t", "p", ":", "/", "/", "h", "\"">>,
      <<"{", " ", "/", "/", " ", "c">>,
      <<"\"", "h", ":", "/", "/", "h", "\"", " ", "/", "/", " ", "c">> }
JsoncTexts ==
    {Join(ls, "\n") :
        ls \in UNION {[1..k -> JsoncLines] : k \in 1..MaxJsoncLines}}

\* JSONC inputs, character by character: every text of up to MaxJsoncLen
\* characters over braces, a bracket, "/", "*", a quote, a letter, a space
\* and the newline.
MaxJsoncLen == 4

JsoncAlphabet == {"{", "}", "[", "/", "*", "\"", "a", " ", "\n"}

JsoncShortTexts == StringsUpTo(JsoncAlphabet, MaxJsoncLen)

\* YAML and TOML inputs: every text of up to MaxPlainLen characters over a
\* key letter, "=", "#", a space and the two line terminators.
MaxPlainLen == 4

PlainAlphabet == {"k", "=", "#", " ", "\n", "\r"}

PlainTexts == StringsUpTo(PlainAlphabet, MaxPlainLen)

TextInit ==
    /\ pc = "text"
    /\ \/ textKind = "json" /\ textIn \in JsonDocs \cup JsonTexts
       \/ textKind = "jsonc" /\ textIn \in JsoncTexts \cup JsoncShortTexts
       \/ textKind \in {"yaml", "toml"} /\ textIn \in PlainTexts
    /\ route = "none"
    /\ once = <<>> /\ twice = <<>>
    /\ MaskIdle /\ LineIdle /\ ScanIdle /\ MainIdle /\ FormatIdle
    /\ RunIdle /\ LoopIdle

notText ==
    <<maskVars, lineVars, scanVars, mainVars, formatVars, runVars, loopVars>>

\* The formatter is applied to the text.
FormatText ==
    /\ pc = "text"
    /\ once' = Formatter(textKind, textIn)
    /\ route' = IF textKind = "json" THEN formatJSONRoute(textIn) ELSE "none"
    /\ pc' = "once"
    /\ UNCHANGED <<textKind, textIn, twice, notText>>

\* The formatter is applied to its own output.
FormatAgain ==
    /\ pc = "once"
    /\ twice' = Formatter(textKind, once)
    /\ pc' = "twice"
    /\ UNCHANGED <<textKind, textIn, route, once, notText>>

TextNext ==
    \/ FormatText
    \/ FormatAgain

SpecText == TextInit /\ [][TextNext]_vars

\* C11 as stated: for every valid JSON document x, formatting the output
\* of the .json formatter again leaves it unchanged,
\* format(format(x)) = format(x), also when strings hold slashes or
\* escaped slashes.
C11_JsonIdempotent ==
    (pc = "twice" /\ textKind = "json" /\ ~JSONParse(textIn).threw) =>
        twice = once

\* Some line of c begins, after leading white space, with "//" or "/*".
LineBeginsWithComment(c) ==
    \E k \in 1..Len(SplitLines(c)) :
        \/ StartsWith(TrimStart(SplitLines(c)[k]), <<"/", "/">>)
        \/ StartsWith(TrimStart(SplitLines(c)[k]), <<"/", "*">>)

\* c holds a "//" that is not immediately preceded by a character of the
\* set allowed (the "//" that begins c is preceded by none).
SlashesNotAfter(c, allowed) ==
    \E k \in 0..Len(c) :
        At(c, k, <<"/", "/">>) /\ (k = 0 \/ c[k] \notin allowed)

\* c holds a "//" immediately preceded by a character outside allowed.
SlashesAfterOther(c, allowed) ==
    \E k \in 1..Len(c) : At(c, k, <<"/", "/">>) /\ c[k] \notin allowed

SentToCanonical == route \in {"canonical", "fallback"}

\* C12 as stated: content goes to the canonical formatter only if no line
\* begins with "//" or "/*" and every "//" is immediately preceded by a
\* quote; content with a "//" preceded by any other character goes to the
\* JSONC reformatter.
C12_AsStated ==
    (pc \in {"once", "twice"} /\ textKind = "json") =>
        /\ SentToCanonical =>
               /\ ~LineBeginsWithComment(textIn)
               /\ ~SlashesNotAfter(textIn, {"\""})
        /\ SlashesAfterOther(textIn, {"\""}) => route = "jsonc"

\* C12: content goes to the canonical formatter only if no line begins
\* (after leading white space) with "//" or "/*" and every "//" is
\* immediately preceded by a quote or a colon; content with a "//" preceded
\* by a character other than a quote or a colon goes to the JSONC
\* reformatter.
C12_Routing ==
    (pc \in {"once", "twice"} /\ textKind = "json") =>
        /\ SentToCanonical =>
               /\ ~LineBeginsWithComment(textIn)
               /\ ~SlashesNotAfter(textIn, {"\"", ":"})
        /\ SlashesAfterOther(textIn, {"\"", ":"}) => route = "jsonc"

C12_Witness ==
    /\ pc = "once" /\ textKind = "json"
    /\ textIn = <<"1", "/", "/">>
    /\ route = "jsonc"
    /\ once = <<"1", " ", "/", "/", "\n">>

\* C13: formatJSON returns a result for every input; when the content is
\* sent to the canonical formatter and JSON.parse throws (and only then),
\* the fallback is taken and the result is exactly formatJSONC(content).
C13_ParseFailureFallsBack ==
    (pc \in {"once", "twice"} /\ textKind = "json") =>
        /\ route \in {"jsonc", "canonical", "fallback"}
        /\ once # <<>>
        /\ route = "fallback" <=>
               (~hasComments(textIn) /\ JSONParse(textIn).threw)
        /\ route = "fallback" => once = formatJSONC(textIn)

C13_Witness ==
    /\ pc = "once" /\ textKind = "json"
    /\ textIn = <<"[", "1">>
    /\ route = "fallback"
    /\ once = <<"[", "1", "\n">>

(***************************************************************************)
(* The depth rule of the JSONC reformatter, as it is stated.               *)
(***************************************************************************)
CommentOnly(t) ==
    \/ StartsWith(t, <<"/", "/">>)
    \/ StartsWith(t, <<"/", "*">>)
    \/ StartsWith(t, <<"*">>)
ClosingPrefixed(t) == t # <<>> /\ (t[1] = "}" \/ t[1] = "]")
SameLinePair(t) ==
    \/ \E i, j \in 1..Len(t) : i < j /\ t[i] = "[" /\ t[j] = "]"
    \/ \E i, j \in 1..Len(t) : i < j /\ t[i] = "{" /\ t[j] = "}"
OpensBlock(t) ==
    t # <<>> /\ (t[Len(t)] = "{" \/ t[Len(t)] = "[") /\ ~SameLinePair(t)

\* The depth at which line t is emitted when the depth before it is d, and
\* the depth after it.
EmitDepth(t, d) ==
    IF CommentOnly(t) \/ ~ClosingPrefixed(t) THEN d
    ELSE IF d = 0 THEN 0 ELSE d - 1
DepthAfter(t, d) ==
    IF t = <<>> \/ CommentOnly(t) THEN d
    ELSE IF OpensBlock(t) THEN EmitDepth(t, d) + 1
    ELSE EmitDepth(t, d)

\* The depth before line k of lines, depth starting at 0.
RECURSIVE DepthBefore(_, _)
DepthBefore(lines, k) ==
    IF k = 1 THEN 0
    ELSE DepthAfter(Trim(lines[k - 1]), DepthBefore(lines, k - 1))

LeadingSpaces(line) == RunLength(line, {" "}, 0, -1)

\* The lines of a formatter output, its final newline not opening a line.
OutputLines(out) ==
    IF out # <<>> /\ out[Len(out)] = "\n"
    THEN Split(SubSeq(out, 1, Len(out) - 1), "\n")
    ELSE Split(out, "\n")

\* C14: formatJSONC gives every non-blank output line an indentation of
\* exactly 2 * depth spaces, depth starting at 0, never negative, left
\* unchanged by a comment-only line, lowered by 1 (not below 0) before a
\* line starting with } or ] is emitted, and raised by 1 after a
\* non-comment line exactly when it ends with { or [ and holds no same-line
\* [...] or {...} pair.
C14_DepthRule ==
    (pc \in {"once", "twice"} /\ textKind = "jsonc") =>
        \A k \in 1..Len(OutputLines(once)) :
            /\ k <= Len(Split(textIn, "\n"))
            /\ DepthBefore(Split(textIn, "\n"), k) >= 0
            /\ OutputLines(once)[k] # <<>> =>
                   /\ Trim(Split(textIn, "\n")[k]) # <<>>
                   /\ LeadingSpaces(OutputLines(once)[k]) =
                          2 * EmitDepth(Trim(Split(textIn, "\n")[k]),
                                        DepthBefore(Split(textIn, "\n"), k))

C14_Witness ==
    /\ pc = "once" /\ textKind = "jsonc"
    /\ textIn = Join(<<<<"\"", "k", "\"", ":", " ", "{">>,
                       <<"\"", "k", "\"", ":", " ", "{">>,
                       <<" ", " ", "}">>>>, "\n")
    /\ OutputLines(once) =
           << <<"\"", "k", "\"", ":", " ", "{">>,
              <<" ", " ", "\"", "k", "\"", ":", " ", "{">>,
              <<" ", " ", "}">> >>

\* The offsets of t that lie outside a double-quoted string literal: an even
\* number of unescaped quotes stand before them.
OutsideString(t, i) ==
    Cardinality({q \in 1..(i - 1) :
                    t[q] = "\"" /\ (q = 1 \/ t[q - 1] # "\\")}) % 2 = 0

\* Where the trailing comment of the line t begins: its first "//" that is
\* not inside a string literal; 0 when it has none.
CommentStart(t) ==
    LET marks == {i \in 1..(Len(t) - 1) :
                     t[i] = "/" /\ t[i + 1] = "/" /\ OutsideString(t, i)}
    IN  IF marks = {} THEN 0 ELSE SetMin(marks)

\* C15 as stated: a non-comment line that carries a trailing "//" comment
\* is emitted as its indentation, its code segment trimmed, exactly one
\* space, and the comment unchanged from its "//" marker to the end of the
\* trimmed line.
C15_InlineComment ==
    (pc \in {"once", "twice"} /\ textKind = "jsonc") =>
        \A k \in 1..Len(OutputLines(once)) :
            LET t == Trim(Split(textIn, "\n")[k])
                d == EmitDepth(t, DepthBefore(Split(textIn, "\n"), k))
            IN  (~CommentOnly(t) /\ CommentStart(t) > 1) =>
                    OutputLines(once)[k] =
                        Indent(d)
                          \o TrimEnd(SubSeq(t, 1, CommentStart(t) - 1))
                          \o <<" ">>
                          \o SubSeq(t, CommentStart(t), Len(t))

\* The lines of a YAML or TOML output: the pieces before each of its
\* newlines.
PlainLines(out) ==
    LET pieces == Split(out, "\n")
    IN  SubSeq(pieces, 1, Len(pieces) - 1)

\* C16: no line of the YAML or TOML normalizer's output ends with a
\* white-space character.
C16_NoTrailingWhitespace ==
    (pc \in {"once", "twice"} /\ textKind \in {"yaml", "toml"}) =>
        \A k \in 1..Len(PlainLines(once)) :
            LET l == PlainLines(once)[k]
            IN  l = <<>> \/ l[Len(l)] \notin WhiteSpace

\* C17: the YAML or TOML normalizer's output has no two consecutive blank
\* lines and ends with exactly one newline.
C17_BlankLinesAndFinalNewline ==
    (pc \in {"once", "twice"} /\ textKind \in {"yaml", "toml"}) =>
        /\ \A k \in 1..(Len(PlainLines(once)) - 1) :
               ~(Trim(PlainLines(once)[k]) = <<>>
                 /\ Trim(PlainLines(once)[k + 1]) = <<>>)
        /\ EndsWith(once, <<"\n">>)
        /\ ~EndsWith(once, <<"\n", "\n">>)

\* A text of a key followed by several blank lines has been normalized to
\* the key and one newline.
C17_Witness ==
    /\ pc = "once"
    /\ textKind = "yaml"
    /\ textIn = <<"k", "\n", "\n", "\n">>
    /\ once = <<"k", "\n">>

(***************************************************************************)
(* index.ts: the orchestrator and the scripts it spawns                    *)
(***************************************************************************)
SecretsScript == "scripts/check-secrets.ts"
FormatScript == "scripts/format.ts"
ReadmeScript == "scripts/generate-readme.ts"
Scripts3 == {SecretsScript, FormatScript, ReadmeScript}

TaskName(script) ==
    IF script = SecretsScript THEN "Secrets Detection"
    ELSE IF script = FormatScript THEN "Format Configuration Files"
    ELSE "Generate README"

\* main's reading of the command line (a: the set of arguments given).
runAll(a) == a = {} \/ "--all" \in a
runSecrets(a) == runAll(a) \/ "--secrets" \in a \/ "-s" \in a
runFormat(a) == runAll(a) \/ "--format" \in a \/ "-f" \in a
runReadme(a) == runAll(a) \/ "--readme" \in a \/ "-r" \in a
showHelp(a) == "--help" \in a \/ "-h" \in a

\* The task list main builds: secrets, format, readme, in this order.
BuildTasks(a) ==
    (IF runSecrets(a) THEN <<SecretsScript>> ELSE <<>>)
      \o (IF runFormat(a) THEN <<FormatScript>> ELSE <<>>)
      \o (IF runReadme(a) THEN <<ReadmeScript>> ELSE <<>>)

\* A child process: not spawned ("idle"), started, in its loop over files,
\* or exited with a code.
IdleProc == [pc |-> "idle", files |-> <<>>, next |-> 1, exit |-> -1]

\* Mutant: `await proc.exited` resolves as soon as the child was spawned.
ProcExitedOnSpawn(p) == p.pc # "idle"

\* `await proc.exited` resolves.
ProcExited(p) == p.pc = "exited"

\* runTask's TaskResult.
TaskResult(script, success) == [name |-> TaskName(script), success |-> success]

(***************************************************************************)
(* Inputs of an orchestrator run: the command line and at most MaxRunFiles *)
(* files of RunUniverse.                                                   *)
(***************************************************************************)
MaxRunFiles == 2

RunUniverse ==
    { DiskFile(<<XJson>>, SecretContent, "rw"),
      DiskFile(<<XJson>>, JsonRaw, "rw"),
      DiskFile(<<XJson>>, JsonTidy, "rw"),
      DiskFile(<<BYaml>>, YamlRaw, "rw"),
      DiskFile(<<BYaml>>, YamlTidy, "rw"),
      DiskFile(<<TToml>>, TomlRaw, "rw"),
      DiskFile(<<TToml>>, TomlRaw, "none"),
      DiskFile(<<Scripts, XJson>>, JsonRaw, "rw"),
      DiskFile(<<NodeModules, XJson>>, JsonRaw, "rw") }

RunDisks ==
    {S \in SUBSET RunUniverse :
        /\ Cardinality(S) <= MaxRunFiles
        /\ \A f, g \in S : f.path = g.path => f = g}

RunCommandLines ==
    { {}, {"--all"}, {"-s"}, {"-f"}, {"-r"}, {"-s", "-f"}, {"-f", "-r"},
      {"-a"}, {"--help"} }

RunInit ==
    /\ pc = "index"
    /\ runArgs \in RunCommandLines
    /\ tasks = <<>> /\ taskNext = 1
    /\ procs = [s \in Scripts3 |-> IdleProc]
    /\ runDisk \in RunDisks
    /\ runOriginal = runDisk
    /\ scanReads = <<>>
    /\ taskResults = <<>>
    /\ runExit = -1
    /\ MaskIdle /\ LineIdle /\ ScanIdle /\ MainIdle /\ FormatIdle
    /\ TextIdle /\ LoopIdle

notRun ==
    <<maskVars, lineVars, scanVars, mainVars, formatVars, textVars, loopVars>>

\* --help: the usage is printed and the process exits 0.
RunHelp ==
    /\ pc = "index" /\ showHelp(runArgs)
    /\ pc' = "exited" /\ runExit' = 0
    /\ UNCHANGED <<runArgs, tasks, taskNext, procs, runDisk, runOriginal,
                   scanReads, taskResults, notRun>>

\* main builds the task list.
RunBuildTasks ==
    /\ pc = "index" /\ ~showHelp(runArgs)
    /\ tasks' = BuildTasks(runArgs)
    /\ taskNext' = 1
    /\ pc' = "tasks"
    /\ UNCHANGED <<runArgs, procs, runDisk, runOriginal, scanReads,
                   taskResults, runExit, notRun>>

\* runTask up to its await: Bun.spawn starts the child, or throws, which
\* runTask's catch turns into a failed TaskResult.
RunSpawn ==
    /\ pc = "tasks" /\ taskNext <= Len(tasks)
    /\ \E throws \in BOOLEAN :
          IF throws
          THEN /\ taskResults' =
                      Append(taskResults, TaskResult(tasks[taskNext], FALSE))
               /\ taskNext' = taskNext + 1
               /\ UNCHANGED <<pc, procs>>
          ELSE /\ procs' = [procs EXCEPT ![tasks[taskNext]].pc = "start"]
               /\ pc' = "await"
               /\ UNCHANGED <<taskResults, taskNext>>
    /\ UNCHANGED <<runArgs, tasks, runDisk, runOriginal, scanReads, runExit,
                   notRun>>

\* runTask from its await on: `const exitCode = await proc.exited`, then
\* the TaskResult; main pushes it and moves to the next task.
RunAwait ==
    /\ pc = "await"
    /\ ProcExited(procs[tasks[taskNext]])
    /\ taskResults' =
           Append(taskResults,
                  TaskResult(tasks[taskNext],
                             procs[tasks[taskNext]].exit = 0))
    /\ taskNext' = taskNext + 1
    /\ pc' = "tasks"
    /\ UNCHANGED <<runArgs, tasks, procs, runDisk, runOriginal, scanReads,
                   runExit, notRun>>

\* After the loop: the summary; exit 1 if a task failed.
RunSummary ==
    /\ pc = "tasks" /\ taskNext > Len(tasks)
    /\ runExit' = IF \E i \in 1..Len(taskResults) : ~taskResults[i].success
                  THEN 1 ELSE 0
    /\ pc' = "exited"
    /\ UNCHANGED <<runArgs, tasks, taskNext, procs, runDisk, runOriginal,
                   scanReads, taskResults, notRun>>

\* check-secrets.ts as a child, started without arguments: loadConfig and
\* scanDirectory.
ChildScanDirectory ==
    /\ procs[SecretsScript].pc = "start"
    /\ procs' = [procs EXCEPT ![SecretsScript] =
                    [pc |-> "files",
                     files |-> scanDirectory(Paths(runDisk),
                                             DefaultConfig).files,
                     next |-> 1, exit |-> -1]]
    /\ UNCHANGED <<pc, runArgs, tasks, taskNext, runDisk, runOriginal,
                   scanReads, taskResults, runExit, notRun>>

\* check-secrets.ts as a child: scanFile reads the next file (a file it
\* may not read is skipped with a warning).
ChildScanFile ==
    /\ procs[SecretsScript].pc = "files"
    /\ procs[SecretsScript].next <= Len(procs[SecretsScript].files)
    /\ LET f == FileAt(runDisk,
                       procs[SecretsScript].files[procs[SecretsScript].next])
       IN  scanReads' = IF Readable(f)
                        THEN Append(scanReads,
                                    [path |-> f.path, content |-> f.content])
                        ELSE scanReads
    /\ procs' = [procs EXCEPT ![SecretsScript].next = @ + 1]
    /\ UNCHANGED <<pc, runArgs, tasks, taskNext, runDisk, runOriginal,
                   taskResults, runExit, notRun>>

\* A content the scanner read holds a secret.
HoldsSecret(read) ==
    scanFile([path |-> read.path, readable |-> TRUE], read.content,
             DefaultConfig.patterns).matches # <<>>

\* check-secrets.ts as a child: exit 1 if secrets were found, else 0.
ChildScanExit ==
    /\ procs[SecretsScript].pc = "files"
    /\ procs[SecretsScript].next > Len(procs[SecretsScript].files)
    /\ procs' = [procs EXCEPT
                    ![SecretsScript].pc = "exited",
                    ![SecretsScript].exit =
                        IF \E i \in 1..Len(scanReads) :
                               HoldsSecret(scanReads[i])
                        THEN 1 ELSE 0]
    /\ UNCHANGED <<pc, runArgs, tasks, taskNext, runDisk, runOriginal,
                   scanReads, taskResults, runExit, notRun>>

\* format.ts as a child, started without --check: getAllFiles.
ChildGetAllFiles ==
    /\ procs[FormatScript].pc = "start"
    /\ procs' = [procs EXCEPT ![FormatScript] =
                    [pc |-> "files", files |-> getAllFiles(Paths(runDisk)),
                     next |-> 1, exit |-> -1]]
    /\ UNCHANGED <<pc, runArgs, tasks, taskNext, runDisk, runOriginal,
                   scanReads, taskResults, runExit, notRun>>

\* format.ts as a child: formatFile reads, formats and rewrites the next
\* file.
ChildFormatFile ==
    /\ procs[FormatScript].pc = "files"
    /\ procs[FormatScript].next <= Len(procs[FormatScript].files)
    /\ runDisk' =
           formatFile(procs[FormatScript].files[procs[FormatScript].next],
                      runDisk, FALSE).disk
    /\ procs' = [procs EXCEPT ![FormatScript].next = @ + 1]
    /\ UNCHANGED <<pc, runArgs, tasks, taskNext, runOriginal, scanReads,
                   taskResults, runExit, notRun>>

\* format.ts as a child: outside check mode it exits 0.
ChildFormatExit ==
    /\ procs[FormatScript].pc = "files"
    /\ procs[FormatScript].next > Len(procs[FormatScript].files)
    /\ procs' = [procs EXCEPT ![FormatScript].pc = "exited",
                              ![FormatScript].exit = 0]
    /\ UNCHANGED <<pc, runArgs, tasks, taskNext, runDisk, runOriginal,
                   scanReads, taskResults, runExit, notRun>>

\* generate-readme.ts as a child: it writes README.md, which is none of
\* the files above; main().catch(console.error) leaves the exit code 0.
ChildReadme ==
    /\ procs[ReadmeScript].pc = "start"
    /\ procs' = [procs EXCEPT ![ReadmeScript].pc = "exited",
                              ![ReadmeScript].exit = 0]
    /\ UNCHANGED <<pc, runArgs, tasks, taskNext, runDisk, runOriginal,
                   scanReads, taskResults, runExit, notRun>>

RunNext ==
    \/ RunHelp
    \/ RunBuildTasks
    \/ RunSpawn
    \/ RunAwait
    \/ RunSummary
    \/ ChildScanDirectory
    \/ ChildScanFile
    \/ ChildScanExit
    \/ ChildGetAllFiles
    \/ ChildFormatFile
    \/ ChildFormatExit
    \/ ChildReadme

SpecRun == RunInit /\ [][RunNext]_vars

\* The children that are running.
RunningProcs == {s \in Scripts3 : procs[s].pc \in {"start", "files"}}

\* C18: the orchestrator's tasks run strictly one after another (a task is
\* spawned only when every task before it has exited), and whatever the
\* scanner reads is the content the file had on disk when the run began:
\* no file is scanned after the formatter of the same run rewrote it.
C18_SequentialTasks ==
    /\ Cardinality(RunningProcs) <= 1
    /\ \A k \in 1..Len(tasks) :
           procs[tasks[k]].pc # "idle" =>
               \A j \in 1..(k - 1) : procs[tasks[j]].pc \in {"idle", "exited"}
    /\ \A i \in 1..Len(scanReads) :
           \E f \in runOriginal :
               f.path = scanReads[i].path /\ f.content = scanReads[i].content
    /\ procs[SecretsScript].pc \in {"start", "files"} => runDisk = runOriginal

\* A run of both tasks has ended in which the formatter rewrote a file the
\* scanner had read before.
C18_Witness ==
    /\ pc = "exited"
    /\ tasks = <<SecretsScript, FormatScript>>
    /\ procs[SecretsScript].pc = "exited"
    /\ procs[FormatScript].pc = "exited"
    /\ \E i \in 1..Len(scanReads) :
           FileAt(runDisk, scanReads[i].path).content # scanReads[i].content

(***************************************************************************)
(* scanFile, step by step: the loop over the patterns and, per pattern,    *)
(* the loop `while ((match = regex.exec(content)) !== null)`.              *)
(***************************************************************************)
\* The loop of a pattern that matches the empty string never ends; the
\* runs below follow it until matches holds MaxVisits entries.
MaxVisits == 3

\* Patterns that can match the empty string: x*, s?, ^, and x* with a
\* context keyword.
EmptyMatchingPool ==
    { [name |-> "Run", pattern |-> <<Star({"x"})>>,
       context |-> NoContext, description |-> "x*"],
      [name |-> "Optional", pattern |-> <<Opt({"s"})>>,
       context |-> NoContext, description |-> "s?"],
      [name |-> "Start", pattern |-> <<Bol>>,
       context |-> NoContext, description |-> "^"],
      [name |-> "Keyed Run", pattern |-> <<Star({"x"})>>,
       context |-> Context(<<<<"z", "z">>>>), description |-> "x*"] }

LoopPatternLists ==
    UNION {[1..k -> PatternPool \cup EmptyMatchingPool] : k \in 0..MaxPatterns}

LoopInit ==
    /\ pc = "for"
    /\ scanFileArg = [path |-> ScanPath, readable |-> TRUE]
    /\ content \in ShortContents \cup {<<>>}
    /\ \E ps \in LoopPatternLists : patterns = [isArray |-> TRUE, items |-> ps]
    /\ patternIndex = 1
    /\ regexLastIndex = 0
    /\ matches = <<>>
    /\ warnings = <<>>
    /\ matchIndex = Unused /\ lineCtx = Unused
    /\ MaskIdle /\ MainIdle /\ FormatIdle /\ TextIdle /\ RunIdle

notLoop == <<maskVars, mainVars, formatVars, textVars, runVars>>

\* The next pattern of the for loop: new RegExp(patternConfig.pattern, 'g')
\* throws, which the inner catch turns into a warning, or gives a regex
\* with lastIndex 0.
LoopCompile ==
    /\ pc = "for" /\ patternIndex <= Len(patterns.items)
    /\ IF Compiles(patterns.items[patternIndex].pattern)
       THEN /\ pc' = "while"
            /\ regexLastIndex' = 0
            /\ UNCHANGED <<patternIndex, warnings>>
       ELSE /\ warnings' =
                   Append(warnings,
                          InvalidRegexWarning(patterns.items[patternIndex]))
            /\ patternIndex' = patternIndex + 1
            /\ UNCHANGED <<pc, regexLastIndex>>
    /\ UNCHANGED <<scanFileArg, patterns, content, matches, matchIndex,
                   lineCtx, notLoop>>

\* One evaluation of the while condition and, on a match, of the body:
\* regex.exec(content) returns null and resets lastIndex, or returns the
\* next match at or after lastIndex and leaves lastIndex at its end; the
\* body pushes the match unless its context test fails.
LoopMatch(p, m) ==
    IF ~m.found
    THEN /\ regexLastIndex' = 0
         /\ patternIndex' = patternIndex + 1
         /\ pc' = "for"
         /\ UNCHANGED matches
    ELSE /\ regexLastIndex' = m.index + Len(m.text)
         /\ matches' = IF Kept(content, p, m)
                       THEN Append(matches,
                                   SecretMatch(content, scanFileArg.path,
                                               p, m))
                       ELSE matches
         /\ UNCHANGED <<patternIndex, pc>>

LoopExec ==
    /\ pc = "while"
    /\ Len(matches) < MaxVisits
    /\ LoopMatch(patterns.items[patternIndex],
                 Exec(content, patterns.items[patternIndex].pattern,
                      regexLastIndex))
    /\ UNCHANGED <<scanFileArg, patterns, content, warnings, matchIndex,
                   lineCtx, notLoop>>

\* return matches
LoopReturn ==
    /\ pc = "for" /\ patternIndex > Len(patterns.items)
    /\ pc' = "returned"
    /\ UNCHANGED <<scanFileArg, patterns, content, matches, warnings,
                   patternIndex, regexLastIndex, matchIndex, lineCtx,
                   notLoop>>

LoopNext ==
    \/ LoopCompile
    \/ LoopExec
    \/ LoopReturn

SpecLoop == LoopInit /\ [][LoopNext]_vars

\* C19 as stated: whenever the while loop of scanFile visits a match, the
\* search position strictly advances, so that the loop of every compiling
\* pattern ends.
C19_SearchAdvances ==
    [][(pc = "while" /\ pc' = "while") => regexLastIndex' > regexLastIndex]_vars

\* C20 as stated: formatJSONC changes no character inside a string literal;
\* a non-comment line whose only "//" lie inside a string is emitted as its
\* indentation followed by the trimmed line unchanged.
C20_StringsUntouched ==
    (pc \in {"once", "twice"} /\ textKind = "jsonc") =>
        \A k \in 1..Len(OutputLines(once)) :
            LET t == Trim(Split(textIn, "\n")[k])
                d == EmitDepth(t, DepthBefore(Split(textIn, "\n"), k))
            IN  (/\ ~CommentOnly(t)
                 /\ Includes(t, <<"/", "/">>)
                 /\ CommentStart(t) = 0) =>
                    OutputLines(once)[k] = Indent(d) \o t

\* The structural delimiters of the trimmed line t: the offsets of its
\* braces and brackets outside string literals and before its comment.
Delimiters(t) ==
    IF CommentOnly(t) THEN {}
    ELSE {i \in 1..(IF CommentStart(t) > 0 THEN CommentStart(t) - 1
                    ELSE Len(t)) :
             t[i] \in {"{", "}", "[", "]"} /\ OutsideString(t, i)}

Unbalanced == <<"!">>

\* The open blocks after the first k lines, innermost last, every line
\* holding at most one delimiter; Unbalanced once a closer met no opener of
\* its kind.
RECURSIVE OpenBlocks(_, _)
OpenBlocksWith(open, t) ==
    IF open = Unbalanced \/ Delimiters(t) = {} THEN open
    ELSE LET ch == t[CHOOSE i \in Delimiters(t) : TRUE]
         IN  IF ch \in {"{", "["} THEN Append(open, ch)
             ELSE IF open # <<>>
                     /\ open[Len(open)] = (IF ch = "}" THEN "{" ELSE "[")
             THEN SubSeq(open, 1, Len(open) - 1)
             ELSE Unbalanced

OpenBlocks(lines, k) ==
    IF k = 0 THEN <<>>
    ELSE OpenBlocksWith(OpenBlocks(lines, k - 1), Trim(lines[k]))

\* Every line holds at most one structural delimiter and the brackets are
\* balanced.
OneDelimiterBalanced(lines) ==
    /\ \A k \in 1..Len(lines) : Cardinality(Delimiters(Trim(lines[k]))) <= 1
    /\ \A k \in 1..Len(lines) : OpenBlocks(lines, k) # Unbalanced
    /\ OpenBlocks(lines, Len(lines)) = <<>>

\* The true nesting depth of line k: the number of blocks open before it,
\* less one when the line begins by closing a block.
TrueDepth(lines, k) ==
    IF 1 \in Delimiters(Trim(lines[k])) /\ Trim(lines[k])[1] \in {"}", "]"}
    THEN Len(OpenBlocks(lines, k - 1)) - 1
    ELSE Len(OpenBlocks(lines, k - 1))

\* C21 as stated: for JSONC input in which every line holds at most one
\* structural delimiter and the brackets are balanced, formatJSONC indents
\* every non-blank line by 2 spaces times its true nesting depth, a block
\* opened by a line with a trailing "//" comment included.
C21_TrueDepthIndent ==
    (/\ pc \in {"once", "twice"} /\ textKind = "jsonc"
     /\ OneDelimiterBalanced(Split(textIn, "\n"))) =>
        \A k \in 1..Len(OutputLines(once)) :
            OutputLines(once)[k] # <<>> =>
                LeadingSpaces(OutputLines(once)[k]) =
                    2 * TrueDepth(Split(textIn, "\n"), k)

====
